---- MODULE Spec2Model ----
(***************************************************************************)
(* ScatterPilot: the conversation handler (functions/bedrock/             *)
(* conversation.py), the direct create-invoice handler (functions/        *)
(* invoices/create.py) and the store operations they call (layers/common/ *)
(* common/dynamodb_helper.py), as processes that share one store.  Every  *)
(* store call is one atomic step that either succeeds or raises           *)
(* DynamoDBException; the computation between two store calls is local    *)
(* and belongs to the step of the call that precedes it.                  *)
(***************************************************************************)
EXTENDS Integers, Sequences, FiniteSets, TLC

(***************************************************************************)
(* Bounds of the model.                                                    *)
(***************************************************************************)
\* handler invocations started in one run
MaxRequests == 3
\* last instant of the clock; one tick is one hour
MaxTime == 1
\* ticks in a calendar month of the scaled-down calendar
MonthTicks == 1
\* the most line items of a payload given to the validator
MaxItems == 2

(***************************************************************************)
(* Program constants.                                                      *)
(***************************************************************************)
FREE_TIER_INVOICE_LIMIT == 5
\* RATE_LIMIT_MAX_REQUESTS of the deployment (the code's default is 100)
RATE_LIMIT_MAX_REQUESTS == 2
\* RATE_LIMIT_WINDOW_SECONDS of the deployment, in ticks of 3600 seconds
RATE_LIMIT_WINDOW_TICKS == 2
\* the default argument of RateLimit.is_expired, 3600 seconds, in ticks
IS_EXPIRED_DEFAULT_TICKS == 1
BACKDATE_DAYS == 90
DUE_DATE_DEFAULT_DAYS == 30

Procs == {"p1", "p2"}
Users == {"free_user", "pro_user"}
ConvIds == {"c1"}
None == "None"

\* the clock read by datetime.utcnow(): calendar month and calendar day
MonthOf(t) == t \div MonthTicks
DayOf(t) == t

\* ConversationState (models.py); REVIEWING is declared and never assigned
ConversationState ==
    {"initiated", "gathering_info", "reviewing", "completed", "abandoned"}

(***************************************************************************)
(* Raw JSON values of a model payload: a number, a date string, a text,   *)
(* a malformed string, or an absent key.                                   *)
(***************************************************************************)
Num(n) == [t |-> "num", v |-> n]
Date(d) == [t |-> "date", v |-> d]
Text == [t |-> "text", v |-> 0]
Junk == [t |-> "junk", v |-> 0]
Empty == [t |-> "empty", v |-> 0]
Absent == [t |-> "absent", v |-> 0]

RawItem(desc, qty, price, taxable) ==
    [description |-> desc, quantity |-> qty, unit_price |-> price,
     taxable |-> taxable]

\* the value of the key "data": a mapping with these keys
RawInvoice(name, idate, ddate, items, rate, disc) ==
    [is_mapping |-> TRUE,
     customer_name |-> name, invoice_date |-> idate, due_date |-> ddate,
     line_items |-> items, tax_rate |-> rate, discount |-> disc]

\* a payload the validator accepts, and payloads it rejects
GoodPayload ==
    RawInvoice(Text, Date(0), Date(30),
               <<RawItem(Text, Num(2), Num(100), TRUE)>>, Num(10), Num(0))
NoDueDatePayload ==
    RawInvoice(Text, Date(0), Absent,
               <<RawItem(Text, Num(2), Num(100), TRUE)>>, Num(10), Num(0))
ZeroQuantityPayload ==
    RawInvoice(Text, Date(0), Date(30),
               <<RawItem(Text, Num(0), Num(100), TRUE)>>, Num(10), Num(0))

\* a create_invoice action without a "data" key: data.get('data', {})
EmptyPayload == RawInvoice(Absent, Absent, Absent, <<>>, Absent, Absent)

\* a "data" value that is not a mapping (a list, a string, null)
NonMappingPayload == [EmptyPayload EXCEPT !.is_mapping = FALSE]

(***************************************************************************)
(* BedrockClient.validate_and_parse_invoice_data.  The result is either   *)
(* [ok |-> TRUE, data |-> InvoiceData] or [ok |-> FALSE, reason |-> ...], *)
(* the latter standing for the ValueError the three except clauses raise. *)
(***************************************************************************)
NoInvoiceData ==
    [customer_name |-> None, invoice_date |-> 0, due_date |-> 0,
     line_items |-> <<>>, tax_rate |-> 0, discount |-> 0]

Reject(r) == [ok |-> FALSE, reason |-> r, data |-> NoInvoiceData]

LineItemErrorZeroQuantity(item) ==
    IF item.description.t = "absent" \/ item.quantity.t = "absent"
    THEN "Missing required field"
    ELSE IF item.quantity.t # "num"
    THEN "Failed to parse invoice data"
    ELSE IF item.unit_price.t = "absent"
    THEN "Missing required field"
    ELSE IF item.unit_price.t # "num"
    THEN "Failed to parse invoice data"
    ELSE IF item.description.t # "text" \/ item.quantity.v < 0
            \/ item.unit_price.v < 0
    THEN "Invalid data format"
    ELSE "ok"

\* the first failure of building LineItem for one raw item, or "ok".  The
\* arguments are evaluated in the order description, quantity, unit_price:
\* an absent key is KeyError, Decimal(str(...)) of a non-number is
\* InvalidOperation, and the model validation comes last
LineItemError(item) ==
    IF item.description.t = "absent" \/ item.quantity.t = "absent"
    THEN "Missing required field"
    ELSE IF item.quantity.t # "num"
    THEN "Failed to parse invoice data"
    ELSE IF item.unit_price.t = "absent"
    THEN "Missing required field"
    ELSE IF item.unit_price.t # "num"
    THEN "Failed to parse invoice data"
    ELSE IF item.description.t # "text" \/ item.quantity.v <= 0
            \/ item.unit_price.v < 0
    THEN "Invalid data format"
    ELSE "ok"

\* LineItem(description=..., quantity=..., unit_price=...): taxable is not
\* passed, so the field takes its default True
ParsedItem(item) ==
    [description |-> "text", quantity |-> item.quantity.v,
     unit_price |-> item.unit_price.v, taxable |-> TRUE]

FirstItemError(items) ==
    IF \E i \in 1..Len(items) : LineItemError(items[i]) # "ok"
    THEN LET i == CHOOSE j \in 1..Len(items) :
                     /\ LineItemError(items[j]) # "ok"
                     /\ \A k \in 1..(j - 1) : LineItemError(items[k]) = "ok"
         IN LineItemError(items[i])
    ELSE "ok"

DateError(raw) ==
    IF raw.t = "absent" THEN "Missing required field"
    ELSE IF raw.t = "date" THEN "ok"
    ELSE IF raw.t = "num" THEN "Failed to parse invoice data"
    ELSE "Invalid data format"

\* lines 416-420: an invoice_date more than 90 days back becomes today
CorrectedInvoiceDateInclusive(invoice_date, today) ==
    IF invoice_date <= today - BACKDATE_DAYS THEN today ELSE invoice_date

CorrectedInvoiceDate(invoice_date, today) ==
    IF invoice_date < today - BACKDATE_DAYS THEN today ELSE invoice_date

\* lines 422-426: a due_date before the (corrected) invoice_date becomes
\* that date plus 30 days
CorrectedDueDateFromItself(due_date, invoice_date) ==
    IF due_date < invoice_date
    THEN due_date + DUE_DATE_DEFAULT_DAYS
    ELSE due_date

CorrectedDueDate(due_date, invoice_date) ==
    IF due_date < invoice_date
    THEN invoice_date + DUE_DATE_DEFAULT_DAYS
    ELSE due_date

validate_and_parse_invoice_data(extracted, today) ==
    LET d == extracted.data
        itemErr == FirstItemError(d.line_items)
        corrected_invoice_date ==
            CorrectedInvoiceDate(d.invoice_date.v, today)
        corrected_due_date ==
            CorrectedDueDate(d.due_date.v, corrected_invoice_date)
        rate == IF d.tax_rate.t = "absent" THEN 0 ELSE d.tax_rate.v
        disc == IF d.discount.t = "absent" THEN 0 ELSE d.discount.v
    IN  IF ~d.is_mapping THEN Reject("Failed to parse invoice data")
        ELSE IF itemErr # "ok" THEN Reject(itemErr)
        ELSE IF DateError(d.invoice_date) # "ok"
        THEN Reject(DateError(d.invoice_date))
        ELSE IF DateError(d.due_date) # "ok"
        THEN Reject(DateError(d.due_date))
        ELSE IF d.customer_name.t = "absent"
        THEN Reject("Missing required field")
        ELSE IF d.tax_rate.t \notin {"num", "absent"}
                \/ d.discount.t \notin {"num", "absent"}
        THEN Reject("Failed to parse invoice data")
        ELSE IF d.customer_name.t # "text" \/ Len(d.line_items) = 0
                \/ rate < 0 \/ rate > 100 \/ disc < 0
        THEN Reject("Invalid data format")
        ELSE [ok |-> TRUE, reason |-> "ok",
              data |-> [customer_name |-> "text",
                        invoice_date |-> corrected_invoice_date,
                        due_date |-> corrected_due_date,
                        line_items |-> [i \in 1..Len(d.line_items) |->
                                           ParsedItem(d.line_items[i])],
                        tax_rate |-> rate,
                        discount |-> disc]]

(***************************************************************************)
(* The derived amounts of InvoiceData (models.py), computed as the        *)
(* properties compute them.  Quantities, prices and the discount are       *)
(* whole amounts and tax_rate is in hundredths, so the amounts that        *)
(* involve a division or the rate are exact fractions n/d.                 *)
(***************************************************************************)
\* LineItem.total
line_total(item) == item.quantity * item.unit_price

RECURSIVE SumTotals(_, _)
\* sum(item.total for item in line_items if ...), taxable_only selecting
\* the items whose taxable flag is set
SumTotals(line_items, taxable_only) ==
    IF line_items = <<>> THEN 0
    ELSE (IF taxable_only /\ ~Head(line_items).taxable
          THEN 0 ELSE line_total(Head(line_items)))
         + SumTotals(Tail(line_items), taxable_only)

subtotal(data) == SumTotals(data.line_items, FALSE)

taxable_subtotal(data) == SumTotals(data.line_items, TRUE)

RECURSIVE GCD(_, _)
GCD(a, b) == IF b = 0 THEN a ELSE GCD(b, a % b)

\* the Decimal n/d, d > 0, in lowest terms
Fraction(n, d) ==
    LET g == GCD(IF n < 0 THEN 0 - n ELSE n, d)
    IN  [n |-> n \div g, d |-> d \div g]

tax_amountIgnoresDiscount(data) ==
    IF subtotal(data) = 0 THEN Fraction(0, 1)
    ELSE Fraction(taxable_subtotal(data) * data.tax_rate, 100)

tax_amount(data) ==
    IF subtotal(data) = 0 THEN Fraction(0, 1)
    ELSE LET taxable_ratio ==
                 Fraction(taxable_subtotal(data), subtotal(data))
             taxable_discount ==
                 Fraction(data.discount * taxable_ratio.n, taxable_ratio.d)
         IN  Fraction((taxable_subtotal(data) * taxable_discount.d
                          - taxable_discount.n) * data.tax_rate,
                      taxable_discount.d * 100)

total(data) ==
    [n |-> (subtotal(data) - data.discount) * tax_amount(data).d
              + tax_amount(data).n,
     d |-> tax_amount(data).d]

(***************************************************************************)
(* The replies of the external model and                                   *)
(* BedrockClient._extract_json_from_response on them.  A reply is its     *)
(* text after strip(): an optional fence (none, ```json, bare ```, or ```  *)
(* with another language tag) around a body that is prose, a JSON array,  *)
(* a malformed object, an object followed by prose, or an object, whose   *)
(* action is None if it has no key "action".                              *)
(***************************************************************************)
Action(a, d) == [action |-> a, data |-> d]

Reply(fence, kind, obj) == [fence |-> fence, kind |-> kind, obj |-> obj]

Replies ==
    {Reply("none", "prose", Action(None, EmptyPayload)),
     Reply("none", "object", Action("create_invoice", GoodPayload)),
     Reply("none", "object", Action("create_invoice", NoDueDatePayload)),
     Reply("none", "object", Action("cancel", EmptyPayload)),
     Reply("none", "object", Action("show_preview", EmptyPayload))}

\* what lines 358-363 and the second strip() leave in front of the body:
\* startswith('```json') removes the fence with the tag json,
\* startswith('```') removes the three backticks only, so that any other
\* language tag stays in json_str
LeadAfterFenceRemoval(reply) ==
    IF reply.fence \in {"none", "json", "bare"} THEN "" ELSE reply.fence

\* json_str.startswith('{')
StartsWithBrace(reply) ==
    /\ LeadAfterFenceRemoval(reply) = ""
    /\ reply.kind \in {"object", "malformed", "object_then_prose"}

\* json.loads(json_str) returns: it raises JSONDecodeError on a malformed
\* object and on text after the object
JsonLoads(reply) == reply.kind = "object"

\* the parsed object if json_str begins with "{", parses and has the key
\* 'action'; None after JSONDecodeError and in every other case
_extract_json_from_response(reply) ==
    IF StartsWithBrace(reply) /\ JsonLoads(reply) /\ reply.obj.action # None
    THEN reply.obj
    ELSE Action(None, EmptyPayload)

(***************************************************************************)
(* State.  The four tables of DynamoDBHelper are functions whose domain   *)
(* is the set of keys that have an item; invoices is the table in the     *)
(* order of the puts (the uuid4 of an invoice is its position).           *)
(***************************************************************************)
VARIABLES now, rate_limits, conversations, invoices, subscriptions, frame,
          requests

vars == <<now, rate_limits, conversations, invoices, subscriptions, frame,
          requests>>

\* an attribute a subscription item does not have
NoAttr == -1

NoAction == Action(None, EmptyPayload)
NoReply == Reply(None, None, NoAction)

Message(role, content) == [role |-> role, content |-> content]

\* Conversation(user_id=..., state=INITIATED) and the object not yet bound
Conversation(cid, u) ==
    [conversation_id |-> cid, user_id |-> u, state |-> "initiated",
     messages |-> <<>>, extracted_data |-> NoAction]
NoConversation == Conversation(None, None)

\* Conversation.to_dynamodb without the key, and _item_to_conversation
ConversationItem(c) ==
    [user_id |-> c.user_id, state |-> c.state, messages |-> c.messages,
     extracted_data |-> c.extracted_data]
_item_to_conversation(cid, item) ==
    [conversation_id |-> cid, user_id |-> item.user_id, state |-> item.state,
     messages |-> item.messages, extracted_data |-> item.extracted_data]

add_messageTwice(c, role, content) ==
    [c EXCEPT !.messages =
        Append(Append(@, Message(role, content)), Message(role, content))]

add_messageUserOnly(c, role, content) ==
    IF role = "assistant" THEN c
    ELSE [c EXCEPT !.messages = Append(@, Message(role, content))]

\* Conversation.add_message
add_message(c, role, content) ==
    [c EXCEPT !.messages = Append(@, Message(role, content))]

\* Invoice(user_id=..., conversation_id=..., data=..., status=DRAFT)
Invoice(u, cid, data, t) ==
    [user_id |-> u, conversation_id |-> cid, data |-> data,
     status |-> "draft", created_at |-> t]
NoInvoice == Invoice(None, None, NoInvoiceData, NoAttr)

\* LineItem.to_dict
LineItem_to_dict(item) ==
    [description |-> item.description, quantity |-> item.quantity,
     unit_price |-> item.unit_price, total |-> line_total(item),
     taxable |-> item.taxable]

\* InvoiceData.to_dynamodb: the fields and the derived amounts
InvoiceData_to_dynamodb(data) ==
    [customer_name |-> data.customer_name,
     invoice_date |-> data.invoice_date,
     due_date |-> data.due_date,
     line_items |-> [i \in 1..Len(data.line_items) |->
                        LineItem_to_dict(data.line_items[i])],
     tax_rate |-> data.tax_rate,
     discount |-> data.discount,
     subtotal |-> subtotal(data),
     tax_amount |-> tax_amount(data),
     total |-> total(data)]

\* Invoice.to_dynamodb: the item put in the invoices table
Invoice_to_dynamodb(invoice) ==
    [user_id |-> invoice.user_id,
     conversation_id |-> invoice.conversation_id,
     data |-> InvoiceData_to_dynamodb(invoice.data),
     status |-> invoice.status, created_at |-> invoice.created_at]

\* DynamoDBHelper._item_to_invoice: LineItem is built from description,
\* quantity and unit_price, so taxable takes the default of the field
_item_to_invoice(item) ==
    [user_id |-> item.user_id,
     conversation_id |-> item.conversation_id,
     data |-> [customer_name |-> item.data.customer_name,
               invoice_date |-> item.data.invoice_date,
               due_date |-> item.data.due_date,
               line_items |->
                   [i \in 1..Len(item.data.line_items) |->
                       [description |-> item.data.line_items[i].description,
                        quantity |-> item.data.line_items[i].quantity,
                        unit_price |-> item.data.line_items[i].unit_price,
                        taxable |-> TRUE]],
               tax_rate |-> item.data.tax_rate,
               discount |-> item.data.discount],
     status |-> item.status, created_at |-> item.created_at]

NoRateLimit == [request_count |-> 0, window_start |-> NoAttr]
NoSubscription ==
    [subscription_status |-> None, invoices_this_month |-> NoAttr,
     invoice_count_reset_at |-> NoAttr, updated_at |-> NoAttr]

\* the API Gateway response of a handler
Response(status, type) ==
    [status |-> status, type |-> type, message |-> None,
     reason |-> None, invoice_ready |-> FALSE,
     usage_limit_reached |-> FALSE, cancelled |-> FALSE, invoice_id |-> 0,
     invoice_data |-> NoInvoiceData, reset_time |-> NoAttr]
NoResponse == Response(0, None)

\* the request body: the keys a handler reads
Body(cid, msg, has_data, data) ==
    [conversation_id |-> cid, message |-> msg,
     has_invoice_data |-> has_data, invoice_data |-> data,
     invoice_id |-> 0]
NoBody == Body(None, None, FALSE, EmptyPayload)

\* the local variables of one invocation of a handler; invoices_put and
\* increments count the invoice puts and counter increments it has made
IdleFrame ==
    [pc |-> "idle", handler |-> None, user_id |-> None, body |-> NoBody,
     new_id |-> None, rate_limit_record |-> NoRateLimit,
     conversation |-> NoConversation, assistant_response |-> NoReply,
     extracted_data |-> NoAction, subscription |-> NoSubscription,
     branch |-> None, invoice |-> NoInvoice, response_data |-> NoResponse,
     response |-> NoResponse, invoices_put |-> 0, increments |-> 0]

Messages == {"text", ""}

\* the store a deployment is in after the free user has created k invoices
\* in month 0 through the create handler and the pro user has created
\* FREE_TIER_INVOICE_LIMIT of them; k = NoAttr is the user never seen
InitCounts == {NoAttr, FREE_TIER_INVOICE_LIMIT - 1, FREE_TIER_INVOICE_LIMIT}

InitInvoices(k) ==
    [i \in 1..(k + FREE_TIER_INVOICE_LIMIT) |->
        Invoice_to_dynamodb(
            Invoice(IF i <= k THEN "free_user" ELSE "pro_user", None,
                    validate_and_parse_invoice_data(
                        Action("create_invoice", GoodPayload), 0).data, 0))]

InitSubscriptions(k) ==
    [u \in (IF k = NoAttr THEN {"pro_user"} ELSE Users) |->
        IF u = "pro_user"
        THEN [subscription_status |-> "pro",
              invoices_this_month |-> FREE_TIER_INVOICE_LIMIT,
              invoice_count_reset_at |-> 0, updated_at |-> 0]
        ELSE [subscription_status |-> "free",
              invoices_this_month |-> k,
              invoice_count_reset_at |-> 0, updated_at |-> 0]]

Init ==
    /\ now = 0
    /\ rate_limits = <<>>
    /\ conversations = <<>>
    /\ \E k \in InitCounts :
         /\ invoices = InitInvoices(IF k = NoAttr THEN 0 ELSE k)
         /\ subscriptions = InitSubscriptions(k)
    /\ frame = [p \in Procs |-> IdleFrame]
    /\ requests = 0

(***************************************************************************)
(* Steps shared by the handlers.                                           *)
(***************************************************************************)
\* return create_error_response(...) / create_success_response(...)
Return(f, resp) == [f EXCEPT !.pc = "done", !.response = resp]

DatabaseErrorQuotaFailsOpen(f) ==
    IF f.pc = "get_user_subscription"
    THEN [f EXCEPT !.pc = "create_invoice", !.branch = "create_invoice"]
    ELSE Return(f, Response(500, "DatabaseError"))

\* except DynamoDBException: 500 DatabaseError (both handlers)
DatabaseError(f) == Return(f, Response(500, "DatabaseError"))

SetFrame(p, f) == frame' = [frame EXCEPT ![p] = f]

Store == <<rate_limits, conversations, invoices, subscriptions>>

\* conversation ids no stored conversation and no invocation holds
FreshIds ==
    ConvIds \ (DOMAIN conversations \cup {frame[q].new_id : q \in Procs})

(***************************************************************************)
(* conversation.py handler, lines 49-99: the message rate limit.           *)
(***************************************************************************)
\* RateLimit.is_expired(), called without its window_seconds argument
is_expired(rec, t) == t - rec.window_start >= IS_EXPIRED_DEFAULT_TICKS

\* RateLimiter.check_limit
check_limit(current_count, window_start, t) ==
    IF t - window_start >= RATE_LIMIT_WINDOW_TICKS
    THEN TRUE
    ELSE current_count < RATE_LIMIT_MAX_REQUESTS

get_reset_timeDefaultWindow(window_start) ==
    window_start + IS_EXPIRED_DEFAULT_TICKS

\* RateLimiter.get_reset_time
get_reset_time(window_start) == window_start + RATE_LIMIT_WINDOW_TICKS

\* RateLimit.create_new
create_new(t) == [request_count |-> 1, window_start |-> t]

\* a request arrives at the conversation handler
StartTurn(p, u, cid, msg) ==
    /\ frame[p].pc = "idle"
    /\ requests < MaxRequests
    /\ cid = None => FreshIds # {}
    /\ requests' = requests + 1
    /\ \E nid \in (IF cid = None THEN FreshIds ELSE {None}) :
         SetFrame(p, [IdleFrame EXCEPT
                        !.pc = "get_rate_limit",
                        !.handler = "conversation",
                        !.user_id = u,
                        !.new_id = nid,
                        !.body = Body(cid, msg, FALSE, EmptyPayload)])
    /\ UNCHANGED <<now, Store>>

\* db_helper.get_rate_limit and the decision of lines 64-99
GetRateLimit(p) ==
    LET f == frame[p]
        u == f.user_id
        rec == rate_limits[u]
    IN  /\ f.pc = "get_rate_limit"
        /\ \/ SetFrame(p, DatabaseError(f))
           \/ /\ u \in DOMAIN rate_limits
              /\ ~is_expired(rec, now)
              /\ ~check_limit(rec.request_count, rec.window_start, now)
              /\ SetFrame(p, Return(f,
                    [Response(429, "RateLimitExceeded") EXCEPT
                        !.reset_time = get_reset_time(rec.window_start)]))
           \/ /\ u \in DOMAIN rate_limits
              /\ ~is_expired(rec, now)
              /\ check_limit(rec.request_count, rec.window_start, now)
              /\ SetFrame(p, [f EXCEPT
                    !.pc = "update_rate_limit",
                    !.rate_limit_record =
                        [rec EXCEPT !.request_count = @ + 1]])
           \/ /\ u \in DOMAIN rate_limits => is_expired(rec, now)
              /\ SetFrame(p, [f EXCEPT
                    !.pc = "update_rate_limit",
                    !.rate_limit_record = create_new(now)])
        /\ UNCHANGED <<now, Store, requests>>

\* line 148-161 and process_conversation_turn line 301: the message check,
\* then the user message is added to the local conversation object
AfterConversation(f) ==
    IF f.body.message = ""
    THEN Return(f, Response(400, "ValidationError"))
    ELSE [f EXCEPT !.pc = "converse",
                   !.conversation =
                       add_message(@, "user", f.body.message)]

\* db_helper.update_rate_limit, then lines 101-145
UpdateRateLimit(p) ==
    LET f == frame[p]
    IN  /\ f.pc = "update_rate_limit"
        /\ \/ /\ SetFrame(p, DatabaseError(f))
              /\ UNCHANGED rate_limits
           \/ /\ rate_limits' =
                    (f.user_id :> f.rate_limit_record) @@ rate_limits
              /\ SetFrame(p,
                    IF f.body.conversation_id # None
                    THEN [f EXCEPT !.pc = "get_conversation"]
                    ELSE [f EXCEPT
                            !.pc = "create_conversation",
                            !.conversation =
                                Conversation(f.new_id, f.user_id)])
        /\ UNCHANGED <<now, conversations, invoices, subscriptions, requests>>

\* db_helper.create_conversation (line 144)
CreateConversation(p) ==
    LET f == frame[p]
    IN  /\ f.pc = "create_conversation"
        /\ \/ /\ SetFrame(p, DatabaseError(f))
              /\ UNCHANGED conversations
           \/ /\ conversations' =
                    (f.conversation.conversation_id :>
                        ConversationItem(f.conversation)) @@ conversations
              /\ SetFrame(p, AfterConversation(f))
        /\ UNCHANGED <<now, rate_limits, invoices, subscriptions, requests>>

(***************************************************************************)
(* check_and_reset_monthly_count has returned subscription: the quota      *)
(* comparison and what follows it up to the next store call, at time t.    *)
(***************************************************************************)
QuotaExhaustedAboveLimit(subscription) ==
    LET is_pro == subscription.subscription_status = "pro"
        invoices_this_month ==
            IF subscription.invoices_this_month = NoAttr
            THEN 0 ELSE subscription.invoices_this_month
    IN  ~is_pro /\ invoices_this_month > FREE_TIER_INVOICE_LIMIT

QuotaExhaustedIgnoresPro(subscription) ==
    LET invoices_this_month ==
            IF subscription.invoices_this_month = NoAttr
            THEN 0 ELSE subscription.invoices_this_month
    IN  invoices_this_month >= FREE_TIER_INVOICE_LIMIT

\* conversation.py lines 181-185 and create.py lines 68-71
QuotaExhausted(subscription) ==
    LET is_pro == subscription.subscription_status = "pro"
        invoices_this_month ==
            IF subscription.invoices_this_month = NoAttr
            THEN 0 ELSE subscription.invoices_this_month
    IN  ~is_pro /\ invoices_this_month >= FREE_TIER_INVOICE_LIMIT

\* conversation.py lines 185-204: the upgrade prompt
QuotaExhaustedTurnKeepsData(f) ==
    [f EXCEPT
       !.pc = "update_conversation",
       !.branch = "quota_exhausted",
       !.conversation.state = "completed",
       !.conversation.extracted_data = f.extracted_data,
       !.response_data =
           [Response(200, None) EXCEPT
               !.message = "upgrade", !.usage_limit_reached = TRUE]]

QuotaExhaustedTurnInvoiceReady(f) ==
    [f EXCEPT
       !.pc = "update_conversation",
       !.branch = "quota_exhausted",
       !.conversation.state = "completed",
       !.response_data =
           [Response(200, None) EXCEPT
               !.message = "upgrade", !.usage_limit_reached = TRUE,
               !.invoice_ready = TRUE]]

\* conversation.py lines 186-201: the upgrade reply
QuotaExhaustedTurn(f) ==
    [f EXCEPT
       !.pc = "update_conversation",
       !.branch = "quota_exhausted",
       !.conversation.state = "completed",
       !.response_data =
           [Response(200, None) EXCEPT
               !.message = "upgrade", !.usage_limit_reached = TRUE]]

ValidTurnIncrementFirst(f, data, t) ==
    [f EXCEPT
       !.pc = "increment_monthly_invoice_count",
       !.branch = "create_invoice",
       !.conversation.extracted_data = f.extracted_data,
       !.conversation.state = "completed",
       !.invoice = Invoice(f.user_id, f.conversation.conversation_id,
                           data, t)]

\* conversation.py lines 208-223: the payload is valid
ValidTurn(f, data, t) ==
    [f EXCEPT
       !.pc = "create_invoice",
       !.branch = "create_invoice",
       !.conversation.extracted_data = f.extracted_data,
       !.conversation.state = "completed",
       !.invoice = Invoice(f.user_id, f.conversation.conversation_id,
                           data, t)]

InvalidTurnInternalError(f, reason) ==
    Return([f EXCEPT !.branch = "invalid"], Response(500, "InternalError"))

InvalidTurnStateKept(f, reason) ==
    [f EXCEPT
       !.pc = "update_conversation",
       !.branch = "invalid",
       !.response_data =
           [Response(200, None) EXCEPT
               !.message = "issues", !.reason = reason]]

\* conversation.py lines 251-259: except ValueError
InvalidTurn(f, reason) ==
    [f EXCEPT
       !.pc = "update_conversation",
       !.branch = "invalid",
       !.conversation.state = "gathering_info",
       !.response_data =
           [Response(200, None) EXCEPT
               !.message = "issues", !.reason = reason]]

TurnAfterQuotaValidatorFirst(f0, subscription, t) ==
    LET f == [f0 EXCEPT !.subscription = subscription]
        v == validate_and_parse_invoice_data(f.extracted_data, DayOf(t))
    IN  IF ~v.ok THEN InvalidTurn(f, v.reason)
        ELSE IF QuotaExhausted(subscription) THEN QuotaExhaustedTurn(f)
        ELSE ValidTurn(f, v.data, t)

\* conversation.py lines 181-259: the quota comparison, then the validator
TurnAfterQuota(f0, subscription, t) ==
    LET f == [f0 EXCEPT !.subscription = subscription]
        v == validate_and_parse_invoice_data(f.extracted_data, DayOf(t))
    IN  IF QuotaExhausted(subscription) THEN QuotaExhaustedTurn(f)
        ELSE IF v.ok THEN ValidTurn(f, v.data, t)
        ELSE InvalidTurn(f, v.reason)

\* create.py lines 123-138
CreateValidate(f, invoice_data_dict, t) ==
    LET v == validate_and_parse_invoice_data(invoice_data_dict, DayOf(t))
    IN  IF v.ok
        THEN [f EXCEPT
                !.pc = "create_invoice",
                !.branch = "create_invoice",
                !.invoice = Invoice(f.user_id, f.body.conversation_id,
                                    v.data, t)]
        ELSE Return([f EXCEPT !.branch = "invalid"],
                    [Response(400, "ValidationError") EXCEPT
                        !.reason = v.reason])

\* create.py lines 68-121
CreateAfterQuota(f0, subscription, t) ==
    LET f == [f0 EXCEPT !.subscription = subscription]
    IN  IF QuotaExhausted(subscription)
        THEN Return([f EXCEPT !.branch = "quota_exhausted"],
                    Response(403, "UsageLimitExceeded"))
        ELSE IF f.body.conversation_id # None
        THEN [f EXCEPT !.pc = "get_conversation"]
        ELSE IF f.body.has_invoice_data
        THEN CreateValidate(f, Action("create_invoice", f.body.invoice_data),
                            t)
        ELSE Return(f, Response(400, "ValidationError"))

AfterQuota(f, subscription, t) ==
    IF f.handler = "conversation"
    THEN TurnAfterQuota(f, subscription, t)
    ELSE CreateAfterQuota(f, subscription, t)

GetConversationAnyOwner(p) ==
    LET f == frame[p]
        cid == f.body.conversation_id
        conversation == _item_to_conversation(cid, conversations[cid])
    IN  /\ f.pc = "get_conversation"
        /\ \/ SetFrame(p, DatabaseError(f))
           \/ /\ cid \notin DOMAIN conversations
              /\ SetFrame(p, Return(f, Response(404, "NotFound")))
           \/ /\ cid \in DOMAIN conversations
              /\ SetFrame(p,
                    IF f.handler = "conversation"
                    THEN AfterConversation(
                             [f EXCEPT !.conversation = conversation])
                    ELSE IF conversation.extracted_data.action = None
                    THEN Return(f, Response(400, "ValidationError"))
                    ELSE CreateValidate(
                             [f EXCEPT !.conversation = conversation],
                             conversation.extracted_data, now))
        /\ UNCHANGED <<now, Store, requests>>

\* db_helper.get_conversation: conversation.py lines 109-136 and
\* create.py lines 86-106
GetConversation(p) ==
    LET f == frame[p]
        cid == f.body.conversation_id
        conversation == _item_to_conversation(cid, conversations[cid])
    IN  /\ f.pc = "get_conversation"
        /\ \/ SetFrame(p, DatabaseError(f))
           \/ /\ cid \notin DOMAIN conversations
              /\ SetFrame(p, Return(f, Response(404, "NotFound")))
           \/ /\ cid \in DOMAIN conversations
              /\ conversation.user_id # f.user_id
              /\ SetFrame(p, Return(f, Response(403, "Forbidden")))
           \/ /\ cid \in DOMAIN conversations
              /\ conversation.user_id = f.user_id
              /\ SetFrame(p,
                    IF f.handler = "conversation"
                    THEN AfterConversation(
                             [f EXCEPT !.conversation = conversation])
                    ELSE IF conversation.extracted_data.action = None
                    THEN Return(f, Response(400, "ValidationError"))
                    ELSE CreateValidate(
                             [f EXCEPT !.conversation = conversation],
                             conversation.extracted_data, now))
        /\ UNCHANGED <<now, Store, requests>>

(***************************************************************************)
(* BedrockClient.process_conversation_turn from the model call on, and     *)
(* the interpretation of the action (conversation.py lines 174-286).       *)
(***************************************************************************)
CancelTurnCompleted(f) ==
    [f EXCEPT
       !.pc = "update_conversation",
       !.branch = "cancel",
       !.conversation.state = "completed",
       !.response_data =
           [Response(200, None) EXCEPT
               !.message = "assistant", !.cancelled = TRUE]]

\* conversation.py lines 261-268
CancelTurn(f) ==
    [f EXCEPT
       !.pc = "update_conversation",
       !.branch = "cancel",
       !.conversation.state = "abandoned",
       !.response_data =
           [Response(200, None) EXCEPT
               !.message = "assistant", !.cancelled = TRUE]]

GatheringTurnStateKept(f, branch) ==
    [f EXCEPT
       !.pc = "update_conversation",
       !.branch = branch,
       !.response_data =
           [Response(200, None) EXCEPT !.message = "assistant"]]

\* conversation.py lines 270-286: unknown action, or no structured data
GatheringTurn(f, branch) ==
    [f EXCEPT
       !.pc = "update_conversation",
       !.branch = branch,
       !.conversation.state = "gathering_info",
       !.response_data =
           [Response(200, None) EXCEPT !.message = "assistant"]]

\* conversation.py lines 175-286: if extracted_data: action = ...
Interpret(f) ==
    LET action == f.extracted_data.action
    IN  IF action = None THEN GatheringTurn(f, "no_action")
        ELSE IF action = "create_invoice"
        THEN [f EXCEPT !.pc = "get_user_subscription"]
        ELSE IF action = "cancel" THEN CancelTurn(f)
        ELSE GatheringTurn(f, "unknown_action")

\* self.converse raises BedrockException, or returns one of replies
ConverseReplies(p, replies) ==
    LET f == frame[p]
    IN  /\ f.pc = "converse"
        /\ \/ SetFrame(p, Return(f, Response(500, "BedrockError")))
           \/ \E reply \in replies :
                SetFrame(p, Interpret(
                    [f EXCEPT
                       !.assistant_response = reply,
                       !.extracted_data =
                           _extract_json_from_response(reply),
                       !.conversation =
                           add_message(@, "assistant", reply.kind)]))
        /\ UNCHANGED <<now, Store, requests>>

ConverseSavesOnFailure(p) ==
    LET f == frame[p]
    IN  /\ f.pc = "converse"
        /\ \/ /\ SetFrame(p, Return(f, Response(500, "BedrockError")))
              /\ conversations' =
                    (f.conversation.conversation_id :>
                        ConversationItem(f.conversation)) @@ conversations
           \/ /\ \E reply \in Replies :
                   SetFrame(p, Interpret(
                       [f EXCEPT
                          !.assistant_response = reply,
                          !.extracted_data =
                              _extract_json_from_response(reply),
                          !.conversation =
                              add_message(@, "assistant", reply.kind)]))
              /\ UNCHANGED conversations
        /\ UNCHANGED <<now, rate_limits, invoices, subscriptions, requests>>

Converse(p) == ConverseReplies(p, Replies)

(***************************************************************************)
(* DynamoDBHelper.check_and_reset_monthly_count: the read, then the put    *)
(* of the default subscription or the reset, each one store call.          *)
(***************************************************************************)
GetUserSubscription(p) ==
    LET f == frame[p]
        u == f.user_id
        subscription == subscriptions[u]
        reset_at == subscription.invoice_count_reset_at
    IN  /\ f.pc = "get_user_subscription"
        /\ \/ SetFrame(p, DatabaseError(f))
           \/ /\ u \notin DOMAIN subscriptions
              /\ SetFrame(p, [f EXCEPT !.pc = "put_default_subscription"])
           \/ /\ u \in DOMAIN subscriptions
              /\ reset_at # NoAttr
              /\ MonthOf(reset_at) # MonthOf(now)
              /\ SetFrame(p, [f EXCEPT
                    !.pc = "reset_monthly_invoice_count",
                    !.subscription = subscription])
           \/ /\ u \in DOMAIN subscriptions
              /\ reset_at # NoAttr => MonthOf(reset_at) = MonthOf(now)
              /\ SetFrame(p, AfterQuota(f, subscription, now))
        /\ UNCHANGED <<now, Store, requests>>

\* subscriptions_table.put_item of the default free subscription
PutDefaultSubscription(p) ==
    LET f == frame[p]
        default == [subscription_status |-> "free",
                    invoices_this_month |-> 0,
                    invoice_count_reset_at |-> now,
                    updated_at |-> now]
    IN  /\ f.pc = "put_default_subscription"
        /\ \/ /\ SetFrame(p, DatabaseError(f))
              /\ UNCHANGED subscriptions
           \/ /\ subscriptions' = (f.user_id :> default) @@ subscriptions
              /\ SetFrame(p, AfterQuota(f,
                    [default EXCEPT !.invoice_count_reset_at = NoAttr,
                                    !.updated_at = NoAttr], now))
        /\ UNCHANGED <<now, rate_limits, conversations, invoices, requests>>

\* update_item of an item that may not exist: the attributes not set keep
\* their value, or are absent
Item(u) ==
    IF u \in DOMAIN subscriptions THEN subscriptions[u] ELSE NoSubscription

\* DynamoDBHelper.reset_monthly_invoice_count
ResetMonthlyInvoiceCount(p) ==
    LET f == frame[p]
    IN  /\ f.pc = "reset_monthly_invoice_count"
        /\ \/ /\ SetFrame(p, DatabaseError(f))
              /\ UNCHANGED subscriptions
           \/ /\ subscriptions' =
                    (f.user_id :> [Item(f.user_id) EXCEPT
                                     !.invoices_this_month = 0,
                                     !.invoice_count_reset_at = now,
                                     !.updated_at = now])
                    @@ subscriptions
              /\ SetFrame(p, AfterQuota(f,
                    [f.subscription EXCEPT !.invoices_this_month = 0], now))
        /\ UNCHANGED <<now, rate_limits, conversations, invoices, requests>>

(***************************************************************************)
(* The invoice put, the counter increment and the conversation put.        *)
(***************************************************************************)
\* db_helper.create_invoice
CreateInvoice(p) ==
    LET f == frame[p]
    IN  /\ f.pc = "create_invoice"
        /\ \/ /\ SetFrame(p, DatabaseError(f))
              /\ UNCHANGED invoices
           \/ /\ invoices' = Append(invoices, Invoice_to_dynamodb(f.invoice))
              /\ SetFrame(p, [f EXCEPT
                    !.pc = "increment_monthly_invoice_count",
                    !.invoices_put = @ + 1,
                    !.response_data.invoice_id = Len(invoices) + 1])
        /\ UNCHANGED <<now, rate_limits, conversations, subscriptions,
                       requests>>

IncrementedOverwrites(item) ==
    [item EXCEPT !.invoices_this_month = 1]

IncrementedSaturating(item) ==
    [item EXCEPT !.invoices_this_month =
                    IF @ = NoAttr THEN 1
                    ELSE IF @ >= FREE_TIER_INVOICE_LIMIT THEN @ ELSE @ + 1]

\* if_not_exists(invoices_this_month, :zero) + :inc; the action sets
\* updated_at
Incremented(item) ==
    [item EXCEPT !.invoices_this_month =
                    (IF @ = NoAttr THEN 0 ELSE @) + 1]

\* db_helper.increment_monthly_invoice_count, then conversation.py lines
\* 230-249 or create.py lines 145-164
IncrementMonthlyInvoiceCount(p) ==
    LET f == frame[p]
    IN  /\ f.pc = "increment_monthly_invoice_count"
        /\ \/ /\ SetFrame(p, DatabaseError(f))
              /\ UNCHANGED subscriptions
           \/ /\ subscriptions' =
                    (f.user_id :> [Incremented(Item(f.user_id))
                                     EXCEPT !.updated_at = now])
                    @@ subscriptions
              /\ SetFrame(p,
                    IF f.handler = "conversation"
                    THEN [f EXCEPT
                            !.pc = "update_conversation",
                            !.increments = @ + 1,
                            !.response_data =
                                [Response(200, None) EXCEPT
                                    !.message = "assistant",
                                    !.invoice_ready = TRUE,
                                    !.invoice_id =
                                        f.response_data.invoice_id,
                                    !.invoice_data = f.invoice.data]]
                    ELSE Return([f EXCEPT !.increments = @ + 1],
                                [Response(201, None) EXCEPT
                                    !.invoice_id =
                                        f.response_data.invoice_id,
                                    !.invoice_data = f.invoice.data]))
        /\ UNCHANGED <<now, rate_limits, conversations, invoices, requests>>

\* db_helper.update_conversation (lines 203 and 289), then the return
UpdateConversation(p) ==
    LET f == frame[p]
    IN  /\ f.pc = "update_conversation"
        /\ \/ /\ SetFrame(p, DatabaseError(f))
              /\ UNCHANGED conversations
           \/ /\ conversations' =
                    (f.conversation.conversation_id :>
                        ConversationItem(f.conversation)) @@ conversations
              /\ SetFrame(p, Return(f, f.response_data))
        /\ UNCHANGED <<now, rate_limits, invoices, subscriptions, requests>>

(***************************************************************************)
(* create.py handler: a request arrives; its first store call is the       *)
(* quota read.                                                             *)
(***************************************************************************)
StartCreate(p, u, cid, has_data, data) ==
    /\ frame[p].pc = "idle"
    /\ requests < MaxRequests
    /\ requests' = requests + 1
    /\ SetFrame(p, [IdleFrame EXCEPT
                      !.pc = "get_user_subscription",
                      !.handler = "create",
                      !.user_id = u,
                      !.body = Body(cid, None, has_data, data)])
    /\ UNCHANGED <<now, Store>>

\* the response has been returned; the invocation ends
Finish(p) ==
    /\ frame[p].pc = "done"
    /\ SetFrame(p, IdleFrame)
    /\ UNCHANGED <<now, Store, requests>>

\* the wall clock advances
Tick ==
    /\ now < MaxTime
    /\ now' = now + 1
    /\ UNCHANGED <<Store, frame, requests>>

Payloads == {GoodPayload, ZeroQuantityPayload}

\* no other invocation is in progress
Alone(p) == \A q \in Procs \ {p} : frame[q].pc = "idle"

\* the steps of an invocation in progress
Step(p) ==
    \/ GetRateLimit(p)
    \/ UpdateRateLimit(p)
    \/ GetConversation(p)
    \/ CreateConversation(p)
    \/ Converse(p)
    \/ GetUserSubscription(p)
    \/ PutDefaultSubscription(p)
    \/ ResetMonthlyInvoiceCount(p)
    \/ CreateInvoice(p)
    \/ IncrementMonthlyInvoiceCount(p)
    \/ UpdateConversation(p)
    \/ Finish(p)

\* a request of any shape arrives while no other invocation is in progress
Arrive(p) ==
    /\ Alone(p)
    /\ \/ \E u \in Users, cid \in ConvIds \cup {None}, msg \in Messages :
            StartTurn(p, u, cid, msg)
       \/ \E u \in Users, cid \in ConvIds \cup {None}, data \in Payloads :
            StartCreate(p, u, cid, TRUE, data)
       \/ \E u \in Users : StartCreate(p, u, None, FALSE, EmptyPayload)

(***************************************************************************)
(* Spec: the invocations of the two handlers run one at a time, with every *)
(* request shape, every reply of the model, a failure of any store call    *)
(* and the clock advancing at any point.                                   *)
(***************************************************************************)
Next ==
    \/ Arrive("p1")
    \/ \E p \in Procs : Step(p)
    \/ Tick

Spec == Init /\ [][Next]_vars

(***************************************************************************)
(* SpecOverlap: two invocations of the conversation handler for the free   *)
(* user, on the conversation the user has open, may overlap, their store   *)
(* calls interleaved in any order.                                         *)
(***************************************************************************)
ArriveOverlap(p) ==
    /\ p = "p2" => frame["p1"].pc # "idle"
    /\ \E cid \in ConvIds : StartTurn(p, "free_user", cid, "text")

\* the steps of a turn on an existing conversation
StepOverlap(p) ==
    \/ GetRateLimit(p)
    \/ UpdateRateLimit(p)
    \/ GetConversation(p)
    \/ Converse(p)
    \/ GetUserSubscription(p)
    \/ PutDefaultSubscription(p)
    \/ ResetMonthlyInvoiceCount(p)
    \/ CreateInvoice(p)
    \/ IncrementMonthlyInvoiceCount(p)
    \/ UpdateConversation(p)
    \/ Finish(p)

NextOverlap ==
    \/ \E p \in Procs : ArriveOverlap(p)
    \/ \E p \in Procs : StepOverlap(p)
    \/ Tick

\* the store of Init after one turn of the free user that opened
\* conversation c1 and got a prose reply
InitOverlap ==
    /\ now = 0
    /\ rate_limits = ("free_user" :> create_new(0))
    /\ conversations =
         ("c1" :> ConversationItem(
             [add_message(add_message(Conversation("c1", "free_user"),
                                      "user", "text"),
                          "assistant", "prose")
                EXCEPT !.state = "gathering_info"]))
    /\ \E k \in InitCounts :
         /\ invoices = InitInvoices(IF k = NoAttr THEN 0 ELSE k)
         /\ subscriptions = InitSubscriptions(k)
    /\ frame = [p \in Procs |-> IdleFrame]
    /\ requests = 1

SpecOverlap == InitOverlap /\ [][NextOverlap]_vars

(***************************************************************************)
(* SpecAccount: the invocations that write the subscription record, one at *)
(* a time: the create handler, the profile update handler and the webhook  *)
(* of a subscription update.                                               *)
(***************************************************************************)
\* no invocation is in progress
AllIdle == \A p \in Procs : frame[p].pc = "idle"

\* profile/update_profile.py handler: update_user_profile, an update_item
\* that sets the profile fields and updated_at; it raises, or it writes
UpdateProfile(u) ==
    /\ AllIdle
    /\ requests < MaxRequests
    /\ requests' = requests + 1
    /\ \/ UNCHANGED subscriptions
       \/ subscriptions' =
             (u :> [Item(u) EXCEPT !.updated_at = now]) @@ subscriptions
    /\ UNCHANGED <<now, rate_limits, conversations, invoices, frame>>

\* the subscription_status handle_subscription_updated maps the Stripe
\* status to
SubscriptionStatuses == {"pro", "cancelled", "free"}

\* subscriptions/webhook.py handle_subscription_updated:
\* create_or_update_user_subscription, an update_item that sets
\* subscription_status and updated_at; it raises, or it writes
SubscriptionUpdated(u, subscription_status) ==
    /\ AllIdle
    /\ requests < MaxRequests
    /\ requests' = requests + 1
    /\ \/ UNCHANGED subscriptions
       \/ subscriptions' =
             (u :> [Item(u) EXCEPT
                      !.subscription_status = subscription_status,
                      !.updated_at = now]) @@ subscriptions
    /\ UNCHANGED <<now, rate_limits, conversations, invoices, frame>>

\* a direct create request with invoice data arrives
ArriveAccount(p) ==
    /\ Alone(p)
    /\ \E u \in Users : StartCreate(p, u, None, TRUE, GoodPayload)

\* the steps of such a request
StepAccount(p) ==
    \/ GetUserSubscription(p)
    \/ PutDefaultSubscription(p)
    \/ ResetMonthlyInvoiceCount(p)
    \/ CreateInvoice(p)
    \/ IncrementMonthlyInvoiceCount(p)
    \/ Finish(p)

NextAccount ==
    \/ ArriveAccount("p1")
    \/ \E p \in Procs : StepAccount(p)
    \/ \E u \in Users : UpdateProfile(u)
    \/ \E u \in Users, s \in SubscriptionStatuses : SubscriptionUpdated(u, s)
    \/ Tick

SpecAccount == Init /\ [][NextAccount]_vars

(***************************************************************************)
(* SpecExtract: the second turn of the free user on conversation c1, from  *)
(* the model call on, with every shape of reply text.                      *)
(***************************************************************************)
ExtractFences == {"none", "json", "bare", "python", "JSON"}

\* the objects a reply carries: without the key "action", or an action
ExtractObjects ==
    {Action(None, EmptyPayload),
     Action("create_invoice", GoodPayload),
     Action("create_invoice", NoDueDatePayload),
     Action("cancel", EmptyPayload),
     Action("show_preview", EmptyPayload)}

ExtractReplies ==
    {Reply(fence, kind, Action(None, EmptyPayload)) :
        fence \in ExtractFences, kind \in {"prose", "array", "malformed"}}
    \cup {Reply(fence, kind, obj) :
            fence \in ExtractFences,
            kind \in {"object", "object_then_prose"},
            obj \in ExtractObjects}

\* conversation c1 as the first turn of user u has left it
OpenConversation(u) ==
    [add_message(add_message(Conversation("c1", u), "user", "text"),
                 "assistant", "prose")
        EXCEPT !.state = "gathering_info"]

\* the frame of a turn of user u on c1 that has passed the rate check and
\* has read the conversation
TurnAtConverse(u) ==
    AfterConversation(
        [IdleFrame EXCEPT
            !.pc = "get_conversation",
            !.handler = "conversation",
            !.user_id = u,
            !.body = Body("c1", "text", FALSE, EmptyPayload),
            !.rate_limit_record = [create_new(0) EXCEPT !.request_count = 2],
            !.conversation = OpenConversation(u)])

InitExtract ==
    /\ now = 0
    /\ rate_limits =
         ("free_user" :> [create_new(0) EXCEPT !.request_count = 2])
    /\ conversations = ("c1" :> ConversationItem(OpenConversation("free_user")))
    /\ \E k \in InitCounts :
         /\ invoices = InitInvoices(IF k = NoAttr THEN 0 ELSE k)
         /\ subscriptions = InitSubscriptions(k)
    /\ frame = [p \in Procs |->
                  IF p = "p1" THEN TurnAtConverse("free_user") ELSE IdleFrame]
    /\ requests = 2

\* the steps of the turn after the model call
StepExtract(p) ==
    \/ GetUserSubscription(p)
    \/ PutDefaultSubscription(p)
    \/ CreateInvoice(p)
    \/ IncrementMonthlyInvoiceCount(p)
    \/ UpdateConversation(p)
    \/ Finish(p)

NextExtract ==
    \/ \E p \in Procs : ConverseReplies(p, ExtractReplies)
    \/ \E p \in Procs : StepExtract(p)

SpecExtract == InitExtract /\ [][NextExtract]_vars

(***************************************************************************)
(* SpecValidate: one request of the pro user that reaches the validator,   *)
(* either the turn on conversation c1 from the model call on or a request  *)
(* to the create handler with direct data, with every payload built from   *)
(* the values below, on any day.                                           *)
(***************************************************************************)
ValidateNames == {Text, Absent}
ValidateInvoiceDates ==
    {Absent, Junk, Date(0 - BACKDATE_DAYS - 1), Date(0 - BACKDATE_DAYS),
     Date(0)}
ValidateDueDates ==
    {Absent, Junk, Date(0 - BACKDATE_DAYS - 5), Date(-1),
     Date(DUE_DATE_DEFAULT_DAYS)}
ValidateItems ==
    {RawItem(Text, Num(2), Num(100), TRUE),
     RawItem(Text, Num(1), Num(50), FALSE),
     RawItem(Text, Num(1), Num(0), TRUE),
     RawItem(Text, Num(0), Num(100), TRUE),
     RawItem(Text, Num(1), Num(-1), TRUE),
     RawItem(Text, Junk, Absent, TRUE),
     RawItem(Absent, Num(1), Num(1), TRUE)}
ValidateTaxRates == {Absent, Num(10), Num(101)}
ValidateDiscounts == {Absent, Num(30), Num(-1)}

ValidateLineItems ==
    UNION {[1..n -> ValidateItems] : n \in 0..MaxItems}

ValidatePayloads ==
    {NonMappingPayload} \cup
    {RawInvoice(name, idate, ddate, items, rate, disc) :
        name \in ValidateNames, idate \in ValidateInvoiceDates,
        ddate \in ValidateDueDates, items \in ValidateLineItems,
        rate \in ValidateTaxRates, disc \in ValidateDiscounts}

\* the model answers with a create_invoice action carrying the payload
ValidateReplies ==
    {Reply("none", "object", Action("create_invoice", payload)) :
        payload \in ValidatePayloads}

InitValidate ==
    /\ now \in 0..MaxTime
    /\ rate_limits =
         ("pro_user" :> [create_new(0) EXCEPT !.request_count = 2])
    /\ conversations = ("c1" :> ConversationItem(OpenConversation("pro_user")))
    /\ invoices = InitInvoices(0)
    /\ subscriptions = InitSubscriptions(NoAttr)
    /\ \E h \in {"conversation", "create"} :
         /\ frame = [p \in Procs |->
                       IF p = "p1" /\ h = "conversation"
                       THEN TurnAtConverse("pro_user") ELSE IdleFrame]
         /\ requests = IF h = "create" THEN MaxRequests - 1 ELSE MaxRequests

\* the request to the create handler arrives
ArriveValidate(p) ==
    /\ Alone(p)
    /\ frame[p].pc = "idle"
    /\ requests < MaxRequests
    /\ \E data \in ValidatePayloads :
         StartCreate(p, "pro_user", None, TRUE, data)

\* the steps of either request after that
StepValidate(p) ==
    \/ GetUserSubscription(p)
    \/ ResetMonthlyInvoiceCount(p)
    \/ CreateInvoice(p)
    \/ IncrementMonthlyInvoiceCount(p)
    \/ UpdateConversation(p)
    \/ Finish(p)

NextValidate ==
    \/ ArriveValidate("p1")
    \/ \E p \in Procs : ConverseReplies(p, ValidateReplies)
    \/ \E p \in Procs : StepValidate(p)

SpecValidate == InitValidate /\ [][NextValidate]_vars

(***************************************************************************)
(* SpecRoundTrip: an Invoice object is put by db_helper.create_invoice and *)
(* read back by the get handler (functions/invoices/get.py).  The objects  *)
(* are those of the type: one to MaxItems line items, taxable or not.      *)
(***************************************************************************)
RoundTripItems ==
    {[description |-> "text", quantity |-> 2, unit_price |-> 100,
      taxable |-> TRUE],
     [description |-> "text", quantity |-> 1, unit_price |-> 50,
      taxable |-> FALSE],
     [description |-> "text", quantity |-> 1, unit_price |-> 50,
      taxable |-> TRUE],
     [description |-> "text", quantity |-> 1, unit_price |-> 0,
      taxable |-> TRUE]}

RoundTripData ==
    {[customer_name |-> "text", invoice_date |-> 0,
      due_date |-> DUE_DATE_DEFAULT_DAYS, line_items |-> items,
      tax_rate |-> rate, discount |-> disc] :
        items \in UNION {[1..n -> RoundTripItems] : n \in 1..MaxItems},
        rate \in {0, 10}, disc \in {0, 30}}

InitRoundTrip ==
    /\ now = 0
    /\ rate_limits = <<>>
    /\ conversations = <<>>
    /\ invoices = <<>>
    /\ subscriptions = InitSubscriptions(NoAttr)
    /\ \E data \in RoundTripData :
         frame = [p \in Procs |->
                    IF p = "p1"
                    THEN [IdleFrame EXCEPT
                            !.pc = "create_invoice",
                            !.handler = "create",
                            !.user_id = "pro_user",
                            !.branch = "create_invoice",
                            !.invoice = Invoice("pro_user", None, data, 0)]
                    ELSE IdleFrame]
    /\ requests = 1

\* a request for invoice id arrives at the get handler
StartGet(p, u, id) ==
    /\ frame[p].pc = "idle"
    /\ requests < MaxRequests
    /\ requests' = requests + 1
    /\ SetFrame(p, [IdleFrame EXCEPT
                      !.pc = "get_invoice",
                      !.handler = "get",
                      !.user_id = u,
                      !.body = [NoBody EXCEPT !.invoice_id = id]])
    /\ UNCHANGED <<now, Store>>

\* db_helper.get_invoice and get.py lines 62-112
GetInvoice(p) ==
    LET f == frame[p]
        id == f.body.invoice_id
        invoice == _item_to_invoice(invoices[id])
    IN  /\ f.pc = "get_invoice"
        /\ \/ SetFrame(p, DatabaseError(f))
           \/ /\ id \notin DOMAIN invoices
              /\ SetFrame(p, Return(f, Response(404, "NotFound")))
           \/ /\ id \in DOMAIN invoices
              /\ invoice.user_id # f.user_id
              /\ SetFrame(p, Return(f, Response(403, "Forbidden")))
           \/ /\ id \in DOMAIN invoices
              /\ invoice.user_id = f.user_id
              /\ SetFrame(p, Return([f EXCEPT !.invoice = invoice],
                                    [Response(200, None) EXCEPT
                                        !.invoice_id = id,
                                        !.invoice_data = invoice.data]))
        /\ UNCHANGED <<now, Store, requests>>

ArriveRoundTrip(p) ==
    /\ Alone(p)
    /\ \E u \in Users, id \in 1..(Len(invoices) + 1) : StartGet(p, u, id)

StepRoundTrip(p) ==
    \/ CreateInvoice(p)
    \/ IncrementMonthlyInvoiceCount(p)
    \/ GetInvoice(p)
    \/ Finish(p)

NextRoundTrip ==
    \/ ArriveRoundTrip("p1")
    \/ \E p \in Procs : StepRoundTrip(p)

SpecRoundTrip == InitRoundTrip /\ [][NextRoundTrip]_vars

(***************************************************************************)
(* SpecCounter: a turn of the free user whose reply carries a valid        *)
(* create_invoice action and a request of the same user to the create      *)
(* handler run concurrently, their store calls interleaved in any order,   *)
(* in the month of the last reset or in the next one.  The invocations     *)
(* keep their response, so that a store failure stays visible.             *)
(***************************************************************************)
CounterReplies ==
    {Reply("none", "object", Action("create_invoice", GoodPayload))}

InitCounter ==
    /\ now \in 0..MaxTime
    /\ rate_limits =
         ("free_user" :> [create_new(0) EXCEPT !.request_count = 2])
    /\ conversations = ("c1" :> ConversationItem(OpenConversation("free_user")))
    /\ \E k \in InitCounts :
         /\ invoices = InitInvoices(IF k = NoAttr THEN 0 ELSE k)
         /\ subscriptions = InitSubscriptions(k)
    /\ frame = [p \in Procs |->
                  IF p = "p1" THEN TurnAtConverse("free_user") ELSE IdleFrame]
    /\ requests = MaxRequests - 1

\* the request to the create handler arrives at any moment of the turn
ArriveCounter(p) ==
    /\ frame[p].pc = "idle"
    /\ StartCreate(p, "free_user", None, TRUE, GoodPayload)

StepCounter(p) ==
    \/ GetUserSubscription(p)
    \/ PutDefaultSubscription(p)
    \/ ResetMonthlyInvoiceCount(p)
    \/ CreateInvoice(p)
    \/ IncrementMonthlyInvoiceCount(p)
    \/ UpdateConversation(p)

NextCounter ==
    \/ ArriveCounter("p2")
    \/ \E p \in Procs : ConverseReplies(p, CounterReplies)
    \/ \E p \in Procs : StepCounter(p)

SpecCounter == InitCounter /\ [][NextCounter]_vars

(***************************************************************************)
(* SpecTurns: the conversation handler alone, its invocations one at a     *)
(* time, with every request shape, every reply, a failure of any store     *)
(* call and the clock advancing at any point.                              *)
(***************************************************************************)
ArriveTurns(p) ==
    /\ Alone(p)
    /\ \E u \in Users, cid \in ConvIds \cup {None}, msg \in Messages :
         StartTurn(p, u, cid, msg)

NextTurns ==
    \/ ArriveTurns("p1")
    \/ \E p \in Procs : Step(p)
    \/ Tick

SpecTurns == Init /\ [][NextTurns]_vars

(***************************************************************************)
(* Properties.                                                             *)
(***************************************************************************)
Limit == FREE_TIER_INVOICE_LIMIT

\* subscription.get('invoices_this_month', 0) of an item or a read
CountOf(item) ==
    IF item.invoices_this_month = NoAttr THEN 0
    ELSE item.invoices_this_month

\* the persisted invoices of user u created in calendar month m
InvoicesOf(u, m) ==
    {i \in DOMAIN invoices :
        invoices[i].user_id = u /\ MonthOf(invoices[i].created_at) = m}

Months == 0..MonthOf(MaxTime)

\* the model has replied in this turn
Replied(f) == f.handler = "conversation" /\ f.assistant_response.kind # None

\* the turn's reply carried create_invoice and its quota read has returned
CreateTurn(f) ==
    /\ Replied(f)
    /\ f.extracted_data.action = "create_invoice"
    /\ f.branch \in {"quota_exhausted", "create_invoice", "invalid"}

\* the quota read of the invocation found a free user at or over the cap
ReadExhausted(f) ==
    /\ f.subscription.subscription_status # "pro"
    /\ CountOf(f.subscription) >= Limit

PayloadValid(f) ==
    validate_and_parse_invoice_data(f.extracted_data, DayOf(now)).ok

Cid(f) == f.conversation.conversation_id

\* the turn has returned its response_data: no store call of it failed
Returned(f) == f.pc = "done" /\ f.response.status = 200

\* the turn was aborted by the failure of a store call
Aborted(f) == f.pc = "done" /\ f.response = Response(500, "DatabaseError")

\* C1: at the end of every conversation turn, also one aborted by a store
\* failure, an invoice was persisted in the turn if and only if the monthly
\* counter was incremented by one in the turn.
C1_InvoiceIffCounterIncrement ==
    \A p \in Procs :
        (frame[p].pc = "done" /\ frame[p].handler = "conversation")
        => /\ frame[p].invoices_put <= 1
           /\ frame[p].invoices_put = 1 <=> frame[p].increments = 1

\* C2: once a conversation is persisted as COMPLETED or ABANDONED no later
\* turn changes its persisted state, and no turn persists REVIEWING.
C2_TerminalStatesAreFinal ==
    [][\A c \in DOMAIN conversations' :
          /\ conversations'[c].state # "reviewing"
          /\ (c \in DOMAIN conversations
              /\ conversations[c].state \in {"completed", "abandoned"})
             => conversations'[c].state = conversations[c].state]_vars

\* C3: when the quota read of a create_invoice turn finds a free-tier user
\* with 5 or more invoices this month, the turn persists no invoice and
\* does not increment the counter; its only store call left is the save of
\* the conversation, and unless that call fails the conversation is
\* persisted as COMPLETED and the response is the upgrade prompt.
C3_QuotaExhaustedTurn ==
    \A p \in Procs :
        LET f == frame[p]
        IN  (CreateTurn(f) /\ ReadExhausted(f))
            => /\ f.invoices_put = 0
               /\ f.increments = 0
               /\ f.pc \in {"update_conversation", "done"}
               /\ f.pc = "done"
                  => \/ Aborted(f)
                     \/ /\ Returned(f)
                        /\ f.response.usage_limit_reached
                        /\ f.response.message = "upgrade"
                        /\ ~f.response.invoice_ready
                        /\ conversations[Cid(f)].state = "completed"

C3_Witness ==
    \E p \in Procs :
        /\ CreateTurn(frame[p]) /\ ReadExhausted(frame[p])
        /\ CountOf(frame[p].subscription) = Limit
        /\ Returned(frame[p])

\* C4: a create_invoice turn whose quota check passes, whose payload is
\* valid and none of whose store calls fails has persisted exactly one
\* invoice, in status DRAFT, owned by the caller and linked to the
\* conversation, has incremented the caller's counter by exactly one, and
\* has persisted the conversation as COMPLETED.
C4_SuccessfulCreateTurn ==
    \A p \in Procs :
        LET f == frame[p]
            id == f.response.invoice_id
        IN  (CreateTurn(f) /\ ~ReadExhausted(f) /\ PayloadValid(f)
             /\ Returned(f))
            => /\ f.invoices_put = 1
               /\ f.increments = 1
               /\ f.response.invoice_ready
               /\ id \in DOMAIN invoices
               /\ invoices[id].user_id = f.user_id
               /\ invoices[id].conversation_id = Cid(f)
               /\ invoices[id].status = "draft"
               /\ f.user_id \in DOMAIN subscriptions
               /\ CountOf(subscriptions[f.user_id])
                     = CountOf(f.subscription) + 1
               /\ conversations[Cid(f)].state = "completed"

C4_Witness ==
    \E p \in Procs :
        /\ CreateTurn(frame[p]) /\ ~ReadExhausted(frame[p])
        /\ PayloadValid(frame[p]) /\ Returned(frame[p])
        /\ frame[p].user_id = "free_user"
        /\ CountOf(frame[p].subscription) = Limit - 1

\* C5: a create_invoice turn whose quota check passes and whose payload
\* fails validation persists no invoice and leaves the counter unchanged;
\* unless the save of the conversation fails, the conversation is
\* persisted as GATHERING_INFO and the turn returns a normal response with
\* the reason of the failure and invoice_ready false.
C5_InvalidPayloadTurn ==
    \A p \in Procs :
        LET f == frame[p]
            v == validate_and_parse_invoice_data(f.extracted_data,
                                                 DayOf(now))
        IN  (CreateTurn(f) /\ ~ReadExhausted(f) /\ ~v.ok)
            => /\ f.invoices_put = 0
               /\ f.increments = 0
               /\ f.user_id \in DOMAIN subscriptions
               /\ CountOf(subscriptions[f.user_id]) = CountOf(f.subscription)
               /\ f.pc \in {"update_conversation", "done"}
               /\ f.pc = "done"
                  => \/ Aborted(f)
                     \/ /\ Returned(f)
                        /\ f.response.message = "issues"
                        /\ f.response.reason = v.reason
                        /\ ~f.response.invoice_ready
                        /\ conversations[Cid(f)].state = "gathering_info"

C5_Witness ==
    \E p \in Procs :
        /\ CreateTurn(frame[p]) /\ ~ReadExhausted(frame[p])
        /\ ~PayloadValid(frame[p])
        /\ Returned(frame[p])
        /\ frame[p].response.reason = "Missing required field"

\* C6: a turn whose reply yields no structured action, or an action other
\* than create_invoice and cancel, persists no invoice, does not read or
\* change the counter, and unless the save of the conversation fails it
\* persists the conversation as GATHERING_INFO, whatever its prior state.
C6_NoActionTurn ==
    \A p \in Procs :
        LET f == frame[p]
        IN  (Replied(f)
             /\ f.extracted_data.action \notin {"create_invoice", "cancel"})
            => /\ f.invoices_put = 0
               /\ f.increments = 0
               /\ f.subscription = NoSubscription
               /\ f.pc \in {"update_conversation", "done"}
               /\ f.pc = "done"
                  => \/ Aborted(f)
                     \/ /\ Returned(f)
                        /\ ~f.response.invoice_ready
                        /\ ~f.response.cancelled
                        /\ conversations[Cid(f)].state = "gathering_info"

C6_Witness ==
    \E p \in Procs :
        /\ Replied(frame[p])
        /\ frame[p].extracted_data.action = "show_preview"
        /\ Returned(frame[p])
        /\ Len(frame[p].conversation.messages) = 4

\* C7: a turn whose reply carries the cancel action persists no invoice,
\* does not increment the counter, and unless the save of the conversation
\* fails it persists the conversation as ABANDONED.
C7_CancelTurn ==
    \A p \in Procs :
        LET f == frame[p]
        IN  (Replied(f) /\ f.extracted_data.action = "cancel")
            => /\ f.invoices_put = 0
               /\ f.increments = 0
               /\ f.pc \in {"update_conversation", "done"}
               /\ f.pc = "done"
                  => \/ Aborted(f)
                     \/ /\ Returned(f)
                        /\ f.response.cancelled
                        /\ conversations[Cid(f)].state = "abandoned"

C7_Witness ==
    \E p \in Procs :
        /\ Replied(frame[p])
        /\ frame[p].extracted_data.action = "cancel"
        /\ Returned(frame[p])

\* C8: the quota check runs before the validator: a create_invoice turn
\* of a free-tier user at the cap whose payload is invalid takes the
\* upgrade-prompt branch, the validator's reason is never produced, and
\* the conversation goes to COMPLETED, never to GATHERING_INFO.
C8_QuotaBeforeValidator ==
    \A p \in Procs :
        LET f == frame[p]
        IN  (CreateTurn(f) /\ ReadExhausted(f) /\ ~PayloadValid(f))
            => /\ f.branch = "quota_exhausted"
               /\ f.conversation.state = "completed"
               /\ f.response_data.reason = None
               /\ f.response_data.message = "upgrade"
               /\ Returned(f)
                  => /\ f.response.usage_limit_reached
                     /\ f.response.reason = None
                     /\ conversations[Cid(f)].state = "completed"

C8_Witness ==
    \E p \in Procs :
        /\ CreateTurn(frame[p]) /\ ReadExhausted(frame[p])
        /\ ~PayloadValid(frame[p])
        /\ Returned(frame[p])

\* C9: with the invocations of one free-tier user running one at a time,
\* the invoices persisted for the user in one calendar month never exceed
\* 5 and the stored invoices_this_month never exceeds 5.
C9_SequentialCapHolds ==
    /\ \A m \in Months : Cardinality(InvoicesOf("free_user", m)) <= Limit
    /\ CountOf(Item("free_user")) <= Limit

\* C10: when two overlapping create_invoice turns of the free-tier user
\* with valid payloads have both read the count 4, under the cap, and both
\* have returned, both
\* have persisted an invoice and incremented the counter: the counter is 6
\* and more than 5 invoices of the user are in the month.
BothReturned(c) ==
    \A p \in Procs :
        /\ CreateTurn(frame[p]) /\ Returned(frame[p])
        /\ PayloadValid(frame[p])
        /\ frame[p].user_id = "free_user"
        /\ frame[p].subscription.subscription_status = "free"
        /\ frame[p].subscription.invoices_this_month = c

C10_OverlapExceedsCap ==
    BothReturned(Limit - 1)
    => /\ \A p \in Procs : frame[p].invoices_put = 1
                           /\ frame[p].increments = 1
       /\ CountOf(Item("free_user")) = Limit + 1
       /\ \E m \in Months : Cardinality(InvoicesOf("free_user", m)) > Limit

C10_Witness ==
    /\ BothReturned(Limit - 1)
    /\ CountOf(Item("free_user")) = 6
    /\ Cardinality(InvoicesOf("free_user", 0)) = 6

\* C11: the monthly counter is never incremented speculatively: in both
\* handlers an invocation reaches the increment only after its own invoice
\* put has succeeded, and an invocation whose invoice put failed or was
\* not attempted has made no increment.
C11_IncrementAfterInvoicePut ==
    \A p \in Procs :
        LET f == frame[p]
        IN  /\ f.increments <= f.invoices_put
            /\ f.invoices_put <= 1
            /\ f.pc = "increment_monthly_invoice_count" => f.invoices_put = 1
            /\ f.invoices_put = 0 => f.increments = 0

C11_Witness ==
    \E p \in Procs :
        /\ frame[p].handler = "create"
        /\ frame[p].pc = "done"
        /\ frame[p].invoices_put = 1
        /\ frame[p].increments = 1

\* C13: an invocation of either handler whose quota read found the
\* subscription status pro passes the quota check whatever the value of
\* invoices_this_month: it never takes the upgrade-prompt branch and never
\* answers UsageLimitExceeded.
C13_ProAlwaysPasses ==
    \A p \in Procs :
        LET f == frame[p]
        IN  f.subscription.subscription_status = "pro"
            => /\ f.branch # "quota_exhausted"
               /\ f.response.type # "UsageLimitExceeded"
               /\ ~f.response_data.usage_limit_reached
               /\ ~f.response.usage_limit_reached
               /\ f.pc = "done"
                  => \/ Aborted(f)
                     \/ f.branch \in {"create_invoice", "invalid"}
                     \/ /\ f.handler = "create"
                        /\ f.response.status \in {400, 403, 404}

\* the pro user at 6 invoices creates a seventh through the create
\* handler, the sixth having come from a conversation turn
C13_Witness ==
    \E p \in Procs :
        /\ frame[p].handler = "create"
        /\ frame[p].pc = "done"
        /\ frame[p].response.status = 201
        /\ frame[p].subscription.subscription_status = "pro"
        /\ frame[p].subscription.invoices_this_month = Limit + 1
        /\ \E i \in DOMAIN invoices :
              /\ invoices[i].user_id = "pro_user"
              /\ invoices[i].conversation_id = "c1"

\* the invocation asks for an invoice: the create handler, or a turn whose
\* reply carried create_invoice
WantsInvoice(f) ==
    \/ f.handler = "create"
    \/ Replied(f) /\ f.extracted_data.action = "create_invoice"

\* C15: the quota check fails closed.  An invocation that asks for an
\* invoice and whose quota read (the get, the put of the default record or
\* the reset) failed is answered with the error DatabaseError and has
\* persisted no invoice and incremented no counter; an invocation gets to
\* the invoice put or the increment only with a subscription it has read
\* and that is under the cap or pro.
C15_QuotaReadFailsClosed ==
    \A p \in Procs :
        LET f == frame[p]
        IN  /\ (WantsInvoice(f) /\ f.pc = "done" /\ f.branch = None
                /\ f.response.status \notin {400, 403, 404})
               => /\ Aborted(f)
                  /\ f.invoices_put = 0
                  /\ f.increments = 0
                  /\ f.invoice = NoInvoice
            /\ (f.pc \in {"create_invoice", "increment_monthly_invoice_count"}
                \/ f.invoices_put > 0 \/ f.increments > 0)
               => /\ f.subscription # NoSubscription
                  /\ ~QuotaExhausted(f.subscription)

\* the get of the subscription failed in a turn whose reply carried
\* create_invoice with a valid payload
C15_Witness ==
    \E p \in Procs :
        /\ Replied(frame[p])
        /\ frame[p].extracted_data.action = "create_invoice"
        /\ PayloadValid(frame[p])
        /\ frame[p].subscription = NoSubscription
        /\ Aborted(frame[p])

\* the external model has been invoked in the turn: it has replied, or the
\* call has failed
ModelInvoked(f) ==
    /\ f.handler = "conversation"
    /\ Replied(f) \/ f.response.type = "BedrockError"

\* the position of the turn's user message in the turn's conversation
UserIndex(f) ==
    IF Replied(f) THEN Len(f.conversation.messages) - 1
    ELSE Len(f.conversation.messages)

\* C18: once the external model has been invoked in a turn, the stored
\* conversation contains the turn's user message, at its position in the
\* history.
C18_UserMessageStoredBeforeModel ==
    \A p \in Procs :
        LET f == frame[p]
        IN  ModelInvoked(f)
            => /\ Cid(f) \in DOMAIN conversations
               /\ Len(conversations[Cid(f)].messages) >= UserIndex(f)
               /\ conversations[Cid(f)].messages[UserIndex(f)]
                     = Message("user", f.body.message)

\* C19: once the model has replied in a turn, its text is the last message
\* of the turn's conversation, after the turn's user message, before the
\* quota read, the validator and the invoice put and in every branch; and
\* the conversation a turn that returns has persisted is that
\* conversation.
C19_AssistantMessageAppended ==
    \A p \in Procs :
        LET f == frame[p]
            m == f.conversation.messages
        IN  Replied(f)
            => /\ Len(m) >= 2
               /\ m[Len(m)] = Message("assistant", f.assistant_response.kind)
               /\ m[Len(m) - 1] = Message("user", f.body.message)
               /\ Returned(f)
                  => /\ conversations[Cid(f)].messages = m
                     /\ conversations[Cid(f)].state = f.conversation.state

\* the second turn of a conversation ends in the upgrade prompt
C19_Witness ==
    \E p \in Procs :
        /\ Replied(frame[p])
        /\ Returned(frame[p])
        /\ frame[p].branch = "quota_exhausted"
        /\ Len(conversations[Cid(frame[p])].messages) = 4
        /\ conversations[Cid(frame[p])].messages[4]
              = Message("assistant", "object")

\* the stored conversation before the turn: the conversation of the turn
\* without the user message the turn has added
BeforeTurn(f) ==
    [f.conversation EXCEPT
        !.messages = SubSeq(@, 1, Len(f.conversation.messages) - 1)]

\* C20: a turn whose model call failed is answered with the error
\* BedrockError; the stored conversation has the state and the messages it
\* had before the turn (INITIATED and no message for a conversation the
\* request has created), no invoice was persisted and the quota was
\* neither read nor incremented.
C20_ModelFailureLeavesStateUnchanged ==
    \A p \in Procs :
        LET f == frame[p]
        IN  (f.pc = "done" /\ f.response.type = "BedrockError")
            => /\ f.response.status = 500
               /\ Cid(f) \in DOMAIN conversations
               /\ conversations[Cid(f)] = ConversationItem(BeforeTurn(f))
               /\ f.body.conversation_id = None
                  => /\ conversations[Cid(f)].state = "initiated"
                     /\ conversations[Cid(f)].messages = <<>>
               /\ f.invoices_put = 0
               /\ f.increments = 0
               /\ f.subscription = NoSubscription

\* the model call fails in the second turn of a conversation
C20_Witness ==
    \E p \in Procs :
        /\ frame[p].pc = "done"
        /\ frame[p].response.type = "BedrockError"
        /\ frame[p].body.conversation_id = "c1"
        /\ Len(conversations["c1"].messages) = 2
        /\ conversations["c1"].state = "gathering_info"

\* C14: the message rate check fails open: a turn that is at the read or
\* the write of the rate record is never answered with the store error,
\* it goes on to the conversation turn.
C14_RateCheckFailsOpen ==
    [][\A p \in Procs :
          frame[p].pc \in {"get_rate_limit", "update_rate_limit"}
          => frame'[p].response.type # "DatabaseError"]_vars

\* C16: at the rate check of a turn, with cap N: without a rate record the
\* turn is allowed and its record is a new window of count 1; with a
\* record whose window of the configured length has not elapsed the turn
\* is allowed, with count + 1 in the same window, iff the stored count is
\* below N, and is rejected at the cap; no stored count exceeds N.
C16_RateCapPerWindow ==
    [][\A p \in Procs :
          LET f == frame[p]
              g == frame'[p]
              u == f.user_id
              rec == rate_limits[u]
          IN  /\ (f.pc = "get_rate_limit" /\ g.pc # "get_rate_limit"
                  /\ g.response.type # "DatabaseError")
                 => IF u \notin DOMAIN rate_limits
                    THEN /\ g.pc = "update_rate_limit"
                         /\ g.rate_limit_record = create_new(now)
                    ELSE now - rec.window_start < RATE_LIMIT_WINDOW_TICKS
                         => IF rec.request_count < RATE_LIMIT_MAX_REQUESTS
                            THEN /\ g.pc = "update_rate_limit"
                                 /\ g.rate_limit_record =
                                       [rec EXCEPT !.request_count = @ + 1]
                            ELSE g.response.status = 429
              /\ \A v \in DOMAIN rate_limits' :
                    rate_limits'[v].request_count <= RATE_LIMIT_MAX_REQUESTS
      ]_vars

\* C17: at the rate check of a turn that finds a rate record, the turn
\* starts a new window (count 1, window_start = now) and is allowed if the
\* time elapsed since window_start has reached the configured window
\* length, and it does not start a new window before that.
C17_NewWindowAfterConfiguredLength ==
    [][\A p \in Procs :
          LET f == frame[p]
              g == frame'[p]
              u == f.user_id
              rec == rate_limits[u]
          IN  (f.pc = "get_rate_limit" /\ g.pc # "get_rate_limit"
               /\ g.response.type # "DatabaseError"
               /\ u \in DOMAIN rate_limits)
              => IF now - rec.window_start >= RATE_LIMIT_WINDOW_TICKS
                 THEN /\ g.pc = "update_rate_limit"
                      /\ g.rate_limit_record = create_new(now)
                 ELSE g.pc = "update_rate_limit"
                      => g.rate_limit_record.window_start = rec.window_start
      ]_vars

\* C12: at a quota read that finds a subscription record last written in
\* a calendar month other than the current one (so that the counter was
\* last reset in another month), the read goes on to reset the stored
\* counter, unless the counter is 0 already and 0 is what the read
\* returns; and the reset stores the counter 0 with the current month and
\* the read returns the count 0.
C12_ResetOnMonthChange ==
    [][\A p \in Procs :
          LET f == frame[p]
              g == frame'[p]
              u == f.user_id
              item == subscriptions[u]
          IN  /\ (f.pc = "get_user_subscription"
                  /\ g.pc # "get_user_subscription" /\ ~Aborted(g)
                  /\ u \in DOMAIN subscriptions
                  /\ MonthOf(item.updated_at) # MonthOf(now))
                 => \/ g.pc = "reset_monthly_invoice_count"
                    \/ CountOf(item) = 0 /\ CountOf(g.subscription) = 0
              /\ (f.pc = "reset_monthly_invoice_count"
                  /\ g.pc # "reset_monthly_invoice_count" /\ ~Aborted(g))
                 => /\ CountOf(subscriptions'[u]) = 0
                    /\ CountOf(g.subscription) = 0
                    /\ MonthOf(subscriptions'[u].invoice_count_reset_at)
                          = MonthOf(now)
      ]_vars

\* the text of a reply with its whitespace and its fence stripped begins
\* with "{", and it parses strictly
CleanedBeginsWithBrace(reply) ==
    reply.kind \in {"object", "malformed", "object_then_prose"}
CleanedParses(reply) == reply.kind = "object"

\* C22: the extraction of a reply is the reply's object exactly when the
\* text, whitespace and fence stripped, begins with "{", parses strictly
\* and is an object with the key action; it is no action in every other
\* case, it never ends the turn in an internal error, and extracting the
\* text again gives the same result.
C22_ExtractContract ==
    \A p \in Procs :
        LET f == frame[p]
            reply == f.assistant_response
        IN  Replied(f)
            => /\ f.extracted_data =
                    (IF CleanedBeginsWithBrace(reply) /\ CleanedParses(reply)
                        /\ reply.obj.action # None
                     THEN reply.obj ELSE NoAction)
               /\ f.extracted_data = _extract_json_from_response(reply)
               /\ f.response.type # "InternalError"

\* C23: a valid action object wrapped in a code fence, with any language
\* tag or none, is what the extraction returns.
C23_FenceWithAnyTagStripped ==
    \A p \in Procs :
        LET f == frame[p]
            reply == f.assistant_response
        IN  (Replied(f) /\ reply.fence # "none" /\ reply.kind = "object"
             /\ reply.obj.action # None)
            => f.extracted_data = reply.obj

\* C21: the persisted message sequence of a conversation is append-only:
\* every write of a conversation keeps the stored messages at their
\* positions and only adds messages at the end.
C21_MessagesAppendOnly ==
    [][\A c \in DOMAIN conversations :
          /\ c \in DOMAIN conversations'
          /\ Len(conversations'[c].messages) >= Len(conversations[c].messages)
          /\ SubSeq(conversations'[c].messages, 1,
                    Len(conversations[c].messages))
                = conversations[c].messages]_vars

(***************************************************************************)
(* The validator and the derived amounts (SpecValidate).                   *)
(***************************************************************************)
\* the raw payload the invocation gives to the validator
RawData(f) ==
    IF f.handler = "create" THEN f.body.invoice_data
    ELSE f.extracted_data.data

\* the invocation has called the validator
ValidatorCalled(f) == f.branch \in {"create_invoice", "invalid"}

\* the validator returned an InvoiceData, kept in f.invoice.data
Validated(f) == f.branch = "create_invoice" /\ f.invoice # NoInvoice

\* the validator raised ValueError
Rejected(f) == f.branch = "invalid"

Today == DayOf(now)

SameAmount(a, b) == a.n * b.d = b.n * a.d

Amount(n, d) == [n |-> n, d |-> d]

\* the sum of quantity x unit_price over the raw items flagged taxable
RawTaxableSubtotal(items) ==
    LET S[i \in 0..Len(items)] ==
            IF i = 0 THEN 0
            ELSE S[i - 1] + (IF items[i].taxable
                             THEN items[i].quantity.v * items[i].unit_price.v
                             ELSE 0)
    IN  S[Len(items)]

\* the payload of the scenario: 2 x 100 taxable, 1 x 50 not taxable, tax
\* rate 0.10, discount 30
ScenarioPayload(raw) ==
    /\ raw.is_mapping
    /\ raw.line_items = <<RawItem(Text, Num(2), Num(100), TRUE),
                          RawItem(Text, Num(1), Num(50), FALSE)>>
    /\ raw.tax_rate = Num(10)
    /\ raw.discount = Num(30)

\* C24: the validated invoice's taxable_subtotal is the sum of the line
\* totals of exactly the items the raw payload flags taxable; the scenario
\* payload gives subtotal 250, taxable_subtotal 200, tax_amount 17.60 and
\* total 237.60.
C24_TaxableFlagHonoured ==
    \A p \in Procs :
        Validated(frame[p])
        => LET raw == RawData(frame[p])
               data == frame[p].invoice.data
           IN  /\ taxable_subtotal(data)
                     = RawTaxableSubtotal(raw.line_items)
               /\ ScenarioPayload(raw)
                     => /\ subtotal(data) = 250
                        /\ taxable_subtotal(data) = 200
                        /\ SameAmount(tax_amount(data), Amount(1760, 100))
                        /\ SameAmount(total(data), Amount(23760, 100))

\* the sum of quantity x unit_price over all items
ReferenceSubtotal(data) ==
    LET S[i \in 0..Len(data.line_items)] ==
            IF i = 0 THEN 0
            ELSE S[i - 1] + data.line_items[i].quantity
                              * data.line_items[i].unit_price
    IN  S[Len(data.line_items)]

AllTaxable(data) ==
    \A i \in 1..Len(data.line_items) : data.line_items[i].taxable

\* subtotal, tax_amount and total of data equal the reference formulas
ReferenceFormulas(data) ==
    LET sub == subtotal(data)
        ts == taxable_subtotal(data)
        tax == tax_amount(data)
    IN  /\ sub = ReferenceSubtotal(data)
        /\ sub = 0 => tax.n = 0
        /\ sub # 0
             => SameAmount(tax, Amount((ts * sub - data.discount * ts)
                                          * data.tax_rate, sub * 100))
        /\ SameAmount(total(data),
                      Amount((sub - data.discount) * tax.d + tax.n, tax.d))

\* tax_amount = (subtotal - discount) x tax_rate
TaxOnDiscountedSubtotal(data) ==
    SameAmount(tax_amount(data),
               Amount((subtotal(data) - data.discount) * data.tax_rate, 100))

\* C25 (as amended): for every validated invoice the derived fields equal
\* the reference formulas, tax_amount being 0 when subtotal is 0; when
\* every item is taxable and subtotal is not 0,
\* tax_amount = (subtotal - discount) x tax_rate.
C25_DerivedFieldsMatchReference ==
    \A p \in Procs :
        Validated(frame[p])
        => LET data == frame[p].invoice.data
           IN  /\ ReferenceFormulas(data)
               /\ (AllTaxable(data) /\ subtotal(data) # 0)
                     => TaxOnDiscountedSubtotal(data)

\* C25 as stated: ... and tax_amount = (subtotal - discount) x tax_rate
\* whenever every item is taxable.
C25_AsStated ==
    \A p \in Procs :
        Validated(frame[p])
        => LET data == frame[p].invoice.data
           IN  /\ ReferenceFormulas(data)
               /\ AllTaxable(data) => TaxOnDiscountedSubtotal(data)

C25_Witness ==
    \E p \in Procs :
        /\ Validated(frame[p])
        /\ subtotal(frame[p].invoice.data) = 250
        /\ frame[p].invoice.data.discount = 30
        /\ SameAmount(tax_amount(frame[p].invoice.data), Amount(22, 1))
        /\ SameAmount(total(frame[p].invoice.data), Amount(242, 1))

\* the payload has both dates and nothing but the dates can make the
\* validator reject it
OnlyDatesInQuestion(raw) ==
    /\ raw.is_mapping
    /\ raw.invoice_date.t = "date"
    /\ raw.due_date.t = "date"
    /\ validate_and_parse_invoice_data(
          Action("create_invoice",
                 [raw EXCEPT !.invoice_date = Date(Today),
                             !.due_date = Date(Today)]), Today).ok

\* C26: a due_date before the invoice_date, compared after the backdating
\* correction, is not rejected and becomes the corrected invoice_date plus
\* 30 days; any other due_date is returned unchanged.
C26_DueDateCorrection ==
    \A p \in Procs :
        (ValidatorCalled(frame[p]) /\ OnlyDatesInQuestion(RawData(frame[p])))
        => LET raw == RawData(frame[p])
               data == frame[p].invoice.data
           IN  /\ Validated(frame[p])
               /\ data.due_date =
                     IF raw.due_date.v < data.invoice_date
                     THEN data.invoice_date + 30
                     ELSE raw.due_date.v

\* the due date was on or after the raw invoice_date and is before the
\* corrected one
C26_Witness ==
    \E p \in Procs :
        /\ Validated(frame[p])
        /\ RawData(frame[p]).due_date.v >= RawData(frame[p]).invoice_date.v
        /\ RawData(frame[p]).due_date.v < frame[p].invoice.data.invoice_date
        /\ frame[p].invoice.data.due_date
              = frame[p].invoice.data.invoice_date + 30

\* C27: an invoice_date more than 90 days before the current date is not
\* rejected and becomes the current date; one at most 90 days in the past,
\* or in the future, is returned unchanged.
C27_BackdatingCorrection ==
    \A p \in Procs :
        (ValidatorCalled(frame[p]) /\ OnlyDatesInQuestion(RawData(frame[p])))
        => LET raw == RawData(frame[p])
               data == frame[p].invoice.data
           IN  /\ Validated(frame[p])
               /\ data.invoice_date =
                     IF Today - raw.invoice_date.v > 90
                     THEN Today
                     ELSE raw.invoice_date.v

\* an invoice_date 91 days back was replaced by the current date
C27_Witness ==
    \E p \in Procs :
        /\ Validated(frame[p])
        /\ Today - RawData(frame[p]).invoice_date.v = 91
        /\ frame[p].invoice.data.invoice_date = Today

\* the constraints of InvoiceData and LineItem
WellFormed(data) ==
    /\ data.due_date >= data.invoice_date
    /\ Len(data.line_items) >= 1
    /\ \A i \in 1..Len(data.line_items) :
         /\ data.line_items[i].quantity > 0
         /\ data.line_items[i].unit_price >= 0
    /\ data.tax_rate >= 0
    /\ data.tax_rate <= 100
    /\ data.discount >= 0

\* C28: every InvoiceData the validator returns, and every invoice the
\* handlers persist, has due_date >= invoice_date, at least one line item,
\* quantities > 0, unit prices >= 0, tax_rate in [0,1] and discount >= 0.
C28_ValidatedInvoiceWellFormed ==
    /\ \A p \in Procs :
         Validated(frame[p]) => WellFormed(frame[p].invoice.data)
    /\ \A i \in 1..Len(invoices) : WellFormed(invoices[i].data)

\* an invoice with a free item and a corrected due date has been persisted
C28_Witness ==
    \E p \in Procs :
        /\ frame[p].invoices_put = 1
        /\ invoices[Len(invoices)] = Invoice_to_dynamodb(frame[p].invoice)
        /\ RawData(frame[p]).due_date.v < frame[p].invoice.data.due_date
        /\ \E i \in 1..Len(frame[p].invoice.data.line_items) :
             frame[p].invoice.data.line_items[i].unit_price = 0

ValidationFailures ==
    {"Missing required field", "Invalid data format",
     "Failed to parse invoice data"}

\* C29: a failure inside the validator is one validation failure, and the
\* conversation turn it happens in takes the repair branch: the state is
\* GATHERING_INFO, the response is the normal one, and the turn never
\* returns an internal error.
C29_ValidationFailureIsRepaired ==
    \A p \in Procs :
        LET f == frame[p]
        IN  (/\ f.handler = "conversation"
             /\ ValidatorCalled(f)
             /\ ~validate_and_parse_invoice_data(f.extracted_data, Today).ok)
            => /\ Rejected(f)
               /\ f.response_data.status = 200
               /\ f.response_data.reason \in ValidationFailures
               /\ f.conversation.state = "gathering_info"
               /\ f.invoices_put = 0
               /\ f.pc = "done"
                    => \/ Aborted(f)
                       \/ /\ f.response = f.response_data
                          /\ conversations[Cid(f)].state = "gathering_info"

\* the data object was not a mapping and the turn returned the repair reply
C29_Witness ==
    \E p \in Procs :
        /\ frame[p].handler = "conversation"
        /\ Rejected(frame[p])
        /\ ~RawData(frame[p]).is_mapping
        /\ Returned(frame[p])
        /\ conversations[Cid(frame[p])].state = "gathering_info"

\* a required key of the payload is absent
RequiredKeyAbsent(raw) ==
    \/ raw.customer_name.t = "absent"
    \/ raw.due_date.t = "absent"
    \/ Len(raw.line_items) = 0
    \/ \E i \in 1..Len(raw.line_items) :
         \/ raw.line_items[i].description.t = "absent"
         \/ raw.line_items[i].quantity.t = "absent"
         \/ raw.line_items[i].unit_price.t = "absent"

\* C30: the validator rejects with a 'missing field' reason whenever
\* customer_name or due_date is absent, the payload has no line item, or a
\* line item lacks description, quantity or unit_price.
C30_MissingFieldReason ==
    \A p \in Procs :
        LET f == frame[p]
            reason == IF f.handler = "create" THEN f.response.reason
                      ELSE f.response_data.reason
        IN  (/\ ValidatorCalled(f)
             /\ RawData(f).is_mapping
             /\ RequiredKeyAbsent(RawData(f)))
            => /\ Rejected(f)
               /\ reason = "Missing required field"

\* the payload has no invoice_date and is valid once it is given one
ValidButForInvoiceDate(raw) ==
    /\ raw.is_mapping
    /\ raw.invoice_date.t = "absent"
    /\ validate_and_parse_invoice_data(
          Action("create_invoice",
                 [raw EXCEPT !.invoice_date = Date(Today)]), Today).ok

\* C31: a create_invoice payload without invoice_date that is otherwise
\* valid is not rejected; the validated invoice_date is the current date.
C31_InvoiceDateDefaultsToToday ==
    \A p \in Procs :
        (ValidatorCalled(frame[p])
            /\ ValidButForInvoiceDate(RawData(frame[p])))
        => /\ Validated(frame[p])
           /\ frame[p].invoice.data.invoice_date = Today

\* C32: the result a turn returns to the caller has invoice_ready = true
\* exactly when an invoice was persisted in that turn, and it carries an
\* invoice id and the computed invoice fields only in that case.
C32_InvoiceReadyIffPersisted ==
    \A p \in Procs :
        LET f == frame[p]
        IN  (f.handler = "conversation" /\ f.pc = "done")
            => /\ f.response.invoice_ready => f.response.status = 200
               /\ f.response.status = 200
                    => (f.response.invoice_ready <=> f.invoices_put = 1)
               /\ f.response.invoice_id # 0 <=> f.response.invoice_ready
               /\ f.response.invoice_data # NoInvoiceData
                    <=> f.response.invoice_ready
               /\ f.response.invoice_ready
                    => /\ f.response.invoice_id \in 1..Len(invoices)
                       /\ invoices[f.response.invoice_id]
                             = Invoice_to_dynamodb(f.invoice)
                       /\ f.response.invoice_data = f.invoice.data

C32_Witness ==
    \E p \in Procs :
        /\ frame[p].handler = "conversation"
        /\ Returned(frame[p])
        /\ frame[p].response.invoice_ready
        /\ frame[p].invoices_put = 1
        /\ invoices[frame[p].response.invoice_id]
              = Invoice_to_dynamodb(frame[p].invoice)

\* the step in which the rate limiter rejects the request of p
RateRejected(p) ==
    /\ frame[p].pc = "get_rate_limit"
    /\ frame'[p].pc = "done"
    /\ frame'[p].response.status = 429

\* C33: a message request rejected by the rate limiter (429) has no other
\* effect: the stored rate record is unchanged, no conversation is created
\* or modified, the model is not invoked, and the reported reset time is
\* window_start plus the window length.
C33_RateRejectionHasNoEffect ==
    [][\A p \in Procs :
          RateRejected(p)
          => /\ UNCHANGED <<rate_limits, conversations, invoices,
                            subscriptions>>
             /\ frame'[p].conversation = NoConversation
             /\ frame'[p].assistant_response = NoReply
             /\ frame'[p].response.type = "RateLimitExceeded"
             /\ frame'[p].response.reset_time
                   = rate_limits[frame[p].user_id].window_start
                       + RATE_LIMIT_WINDOW_TICKS]_vars

\* a request was rejected while the stored count is at the cap
C33_Witness ==
    \E p \in Procs :
        /\ frame[p].pc = "done"
        /\ frame[p].response.status = 429
        /\ rate_limits[frame[p].user_id].request_count
              = RATE_LIMIT_MAX_REQUESTS
        /\ frame[p].response.reset_time
              = rate_limits[frame[p].user_id].window_start
                  + RATE_LIMIT_WINDOW_TICKS

\* the get handler has read back the invoice it returns
ReadBack(f) == f.handler = "get" /\ f.pc = "done" /\ f.response.status = 200

Quiescent == \A p \in Procs : frame[p].pc \in {"idle", "done"}

\* no store call and no model call of the invocations has failed
NoFailure == \A p \in Procs : frame[p].response.status # 500

\* the invoices persisted for u since the month of the counter's last reset
InvoicesSinceReset(u) ==
    {i \in DOMAIN invoices :
        /\ invoices[i].user_id = u
        /\ subscriptions[u].invoice_count_reset_at # NoAttr
             => MonthOf(invoices[i].created_at)
                  >= MonthOf(subscriptions[u].invoice_count_reset_at)}

\* C35: in every quiescent state of an execution without store failures,
\* each user's invoices_this_month is the number of invoices persisted for
\* the user since the counter's last month-change reset, under any
\* interleaving of concurrent turns and create requests.
C35_CounterMatchesInvoices ==
    (Quiescent /\ NoFailure)
    => \A u \in DOMAIN subscriptions :
          CountOf(subscriptions[u]) = Cardinality(InvoicesSinceReset(u))

\* the persisted invoices whose originating conversation is c
InvoicesOfConversation(c) ==
    {i \in DOMAIN invoices : invoices[i].conversation_id = c}

\* C36: for every conversation, at most one invoice with that originating
\* conversation id is ever persisted by the conversation handler, over any
\* sequence of turns on the conversation.
C36_OneInvoicePerConversation ==
    \A c \in ConvIds : Cardinality(InvoicesOfConversation(c)) <= 1

\* C37: whenever a conversation is persisted with state COMPLETED and a
\* non-null extracted_data, an invoice whose conversation_id is that
\* conversation has already been persisted, whatever store call fails and
\* however turns overlap.
C37_CompletedWithDataHasInvoice ==
    \A c \in DOMAIN conversations :
        (/\ conversations[c].state = "completed"
         /\ conversations[c].extracted_data # NoAction)
        => InvoicesOfConversation(c) # {}

\* a turn has saved its conversation COMPLETED with the extracted data
\* while the other turn on the conversation is still in progress
C37_Witness ==
    /\ "c1" \in DOMAIN conversations
    /\ conversations["c1"].state = "completed"
    /\ conversations["c1"].extracted_data.action = "create_invoice"
    /\ InvoicesOfConversation("c1") # {}
    /\ \E p \in Procs : frame[p].pc \notin {"idle", "done"}

\* the messages are user, assistant, user, assistant, ...
Alternates(messages) ==
    /\ Len(messages) % 2 = 0
    /\ \A i \in 1..Len(messages) :
         messages[i].role = IF i % 2 = 1 THEN "user" ELSE "assistant"

\* the persisted messages of conversation c, none if it is not persisted
StoredMessages(store, c) ==
    IF c \in DOMAIN store THEN store[c].messages ELSE <<>>

\* new is old followed by one user message and one assistant message
OneExchangeAppended(old, new) ==
    /\ Len(new) = Len(old) + 2
    /\ SubSeq(new, 1, Len(old)) = old
    /\ new[Len(old) + 1].role = "user"
    /\ new[Len(old) + 2].role = "assistant"

\* C38: every persisted conversation's message list has even length and
\* alternates user, assistant starting with user; a turn that persists the
\* conversation appends exactly one user message followed by one assistant
\* message, and a turn that fails persists no new message.
C38_MessagesAlternate ==
    [][\A c \in DOMAIN conversations' :
          LET old == StoredMessages(conversations, c)
              new == StoredMessages(conversations', c)
          IN  /\ Alternates(new)
              /\ new # old
                   => /\ OneExchangeAppended(old, new)
                      /\ \E p \in Procs :
                           /\ frame[p].pc = "update_conversation"
                           /\ frame'[p].pc = "done"
                           /\ frame'[p].response.status = 200
                           /\ Cid(frame[p]) = c]_vars

\* two turns have been persisted on one conversation
C38_Witness ==
    \E c \in DOMAIN conversations :
        /\ Len(conversations[c].messages) = 4
        /\ Alternates(conversations[c].messages)

\* the request in progress names a conversation that another user owns
NamesForeignConversation(f) ==
    /\ f.pc # "idle"
    /\ f.body.conversation_id \in DOMAIN conversations
    /\ conversations[f.body.conversation_id].user_id # f.user_id

\* C39: a turn, or a request to the create handler, that names a
\* conversation owned by a different user is rejected with 403 and has no
\* effect on it: the stored record is unchanged, the model is not invoked,
\* no invoice is persisted and no monthly counter is incremented.
C39_ForeignConversationUntouched ==
    [][\A p \in Procs :
          (NamesForeignConversation(frame[p]) /\ frame'[p] # frame[p])
          => /\ UNCHANGED <<conversations, invoices>>
             /\ \A u \in DOMAIN subscriptions :
                  CountOf(subscriptions'[u]) <= CountOf(subscriptions[u])
             /\ frame'[p].pc # "idle"
                  => /\ frame'[p].assistant_response = NoReply
                     /\ frame'[p].invoices_put = 0
                     /\ frame'[p].increments = 0
                     /\ frame'[p].pc = "done"
                          => frame'[p].response.status \in {403, 429, 500}
             /\ (/\ frame[p].pc = "get_conversation"
                 /\ frame'[p].response.status # 500)
                  => frame'[p].response = Response(403, "Forbidden")]_vars

\* a turn that named the conversation of another user was answered 403
C39_Witness ==
    \E p \in Procs :
        /\ frame[p].pc = "done"
        /\ frame[p].handler = "conversation"
        /\ frame[p].response = Response(403, "Forbidden")
        /\ NamesForeignConversation(frame[p])
        /\ frame[p].assistant_response = NoReply

\* the step of p ends a turn with the validation error of an empty message
RejectsEmptyMessage(p) ==
    /\ frame[p].pc \notin {"idle", "done"}
    /\ frame[p].handler = "conversation"
    /\ frame[p].body.message = ""
    /\ frame'[p].pc = "done"
    /\ frame'[p].response = Response(400, "ValidationError")

\* C40: a turn rejected with a validation error because the user message is
\* empty leaves the conversation store unchanged: no conversation record is
\* created or modified, no message is appended and the model is not invoked.
C40_EmptyMessageLeavesStoreUnchanged ==
    [][\A p \in Procs :
          RejectsEmptyMessage(p)
          => /\ UNCHANGED conversations
             /\ frame'[p].assistant_response = NoReply]_vars

\* the same statement for the turns that name an existing conversation
C40_ExistingConversationUnchanged ==
    [][\A p \in Procs :
          (RejectsEmptyMessage(p) /\ frame[p].body.conversation_id # None)
          => /\ UNCHANGED conversations
             /\ frame'[p].assistant_response = NoReply]_vars

\* a turn on an existing conversation was rejected for its empty message
C40_Witness ==
    \E p \in Procs :
        /\ frame[p].pc = "done"
        /\ frame[p].handler = "conversation"
        /\ frame[p].body.message = ""
        /\ frame[p].body.conversation_id \in DOMAIN conversations
        /\ frame[p].response = Response(400, "ValidationError")
====
